---- MODULE Spec2Model ----
(***************************************************************************)
(* Model of the M-Bus telegram decoder (libmburs).                         *)
(*                                                                         *)
(* Every parser of the crate is a function from a byte cursor to a typed   *)
(* value plus an advanced cursor.  A parser is modelled as an operator     *)
(* P(s, p): s is the byte buffer, p the number of bytes already consumed,  *)
(* and the result is a record                                              *)
(*    [kind, val, ctx, pos]                                                *)
(* kind = "ok"     : val is the parsed value, pos the advanced cursor      *)
(* kind = "err"    : ctx is the list of context labels, innermost first    *)
(* kind = "assert" : the parser raised a winnow assertion (ctx = message)  *)
(* kind = "panic"  : the Rust code aborted (todo!, unreachable!, overflow, *)
(*                   slice out of range); ctx = <<message>>                *)
(* The state machines below apply these operators to inputs drawn from     *)
(* bounded sets.                                                           *)
(***************************************************************************)
EXTENDS Integers, Sequences, FiniteSets, TLC

VARIABLES
    pc,      \* position of the running operation
    input,   \* the byte buffer handed to the operation
    pos,     \* bytes of input consumed so far
    data,    \* long frame: the payload slice handed to the transport layer
    link,    \* long/short frame: the link-layer fields accepted so far
    out      \* the result returned to the caller

vars == <<pc, input, pos, data, link, out>>

-----------------------------------------------------------------------------
(* Results *)

Ok(v, p) == [kind |-> "ok", val |-> v, ctx |-> <<>>, pos |-> p]

Err(c, p) == [kind |-> "err", val |-> <<>>, ctx |-> c, pos |-> p]

Panic(m, p) == [kind |-> "panic", val |-> <<>>, ctx |-> <<m>>, pos |-> p]

AssertFail(m, p) == [kind |-> "assert", val |-> <<>>, ctx |-> <<m>>, pos |-> p]

NoResult == [kind |-> "none", val |-> <<>>, ctx |-> <<>>, pos |-> 0]

\* Parser::context(StrContext::Label(l)): an error passing through gains l
Context(r, l) == IF r.kind = "err" THEN [r EXCEPT !.ctx = Append(@, l)] ELSE r

Innermost(r) == IF r.ctx = <<>> THEN "" ELSE r.ctx[1]

Failed(r) == r.kind # "ok"

\* the ? operator: a value goes on to F, anything else is returned at once
Bind(r, F(_)) == IF r.kind = "ok" THEN F(r) ELSE r

\* Parser::map: F on the value of a success
MapOk(r, F(_)) == IF r.kind = "ok" THEN Ok(F(r.val), r.pos) ELSE r

\* Fault: no second alternative
OrElseNothing(r, other) == r

\* alt((a, b)): b is tried when a backtracks
OrElse(r, other) == IF r.kind = "err" THEN other ELSE r

-----------------------------------------------------------------------------
(* Bytes and bit fields *)

Byte == 0..255

Pow2(n) == 2 ^ n

\* bits hi..lo of b (bit 0 is the least significant)
Bits(b, hi, lo) == (b \div Pow2(lo)) % Pow2(hi - lo + 1)

Bit(b, n) == Bits(b, n, n) = 1

WrappingAdd(a, b) == (a + b) % 256

RECURSIVE SumBytes(_)
SumBytes(s) == IF s = <<>> THEN 0 ELSE WrappingAdd(Head(s), SumBytes(Tail(s)))

Slice(s, from, to) == SubSeq(s, from + 1, to)

Remaining(s, p) == Len(s) - p

RestOf(s, p) == SubSeq(s, p + 1, Len(s))

RECURSIVE Reverse(_)
Reverse(s) == IF s = <<>> THEN <<>> ELSE Append(Reverse(Tail(s)), Head(s))

\* binary::u8
U8(s, p) == IF Remaining(s, p) < 1 THEN Err(<<>>, p) ELSE Ok(s[p + 1], p + 1)

\* binary::le_u16
LeU16(s, p) ==
    IF Remaining(s, p) < 2 THEN Err(<<>>, p)
    ELSE Ok(s[p + 1] + 256 * s[p + 2], p + 2)

\* repeat(0.., binary::u8): the rest of the input; never fails
ParseRemaining(s, p) == Ok(RestOf(s, p), Len(s))

-----------------------------------------------------------------------------
(* Link layer: link_layer.rs *)

LONG_FRAME_HEADER == 104

SHORT_FRAME_HEADER == 16

FRAME_TAIL == 22

ACK_FRAME == 229

PrimaryMessage(fcv_dfc, function) ==
    CASE (~fcv_dfc) /\ function = 0 -> "ResetRemoteLink"
      [] (~fcv_dfc) /\ function = 1 -> "ResetUserProcess"
      [] function = 2 -> "none"
      [] fcv_dfc /\ function = 3 -> "SendUserDataConfirmed"
      [] (~fcv_dfc) /\ function = 4 -> "SendUserDataUnconfirmed"
      [] (~fcv_dfc) /\ function = 8 -> "RequestAccessDemand"
      [] (~fcv_dfc) /\ function = 9 -> "RequestLinkStatus"
      [] fcv_dfc /\ function = 10 -> "RequestUserData1"
      [] fcv_dfc /\ function = 11 -> "RequestUserData2"
      [] OTHER -> "none"

SecondaryMessage(function) ==
    CASE function = 0 -> "ACK"
      [] function = 1 -> "NACK"
      [] function = 8 -> "UserData"
      [] function = 9 -> "UserDataUnavailable"
      [] function = 11 -> "Status"
      [] function = 14 -> "LinkNotFunctioning"
      [] function = 15 -> "LinkNotFunctioning"
      [] OTHER -> "none"

\* Control::parse
ControlParse(s, p) ==
    IF Remaining(s, p) < 1 THEN Err(<<"reserved">>, p)
    ELSE LET b == s[p + 1]
             prm == Bit(b, 6)
             fcb_acd == Bit(b, 5)
             fcv_dfc == Bit(b, 4)
             function == Bits(b, 3, 0)
             message == IF prm THEN PrimaryMessage(fcv_dfc, function)
                        ELSE SecondaryMessage(function)
         IN  IF Bit(b, 7) THEN Err(<<"reserved">>, p)
             ELSE IF message = "none" THEN Err(<<>>, p)
             ELSE Ok([primary |-> prm,
                      fcb_acd |-> fcb_acd,
                      dfc |-> IF prm THEN "n/a"
                              ELSE IF fcv_dfc THEN "Pause" ELSE "Continue",
                      message |-> message,
                      raw |-> b], p + 1)

\* Fault: a checksum that leaves the address byte out
VariableSumWithoutAddress(payload, raw_control, address) ==
    WrappingAdd(SumBytes(payload), raw_control)

\* parse_variable, line 233: the checksum over payload, control and address
VariableSum(payload, raw_control, address) ==
    WrappingAdd(WrappingAdd(SumBytes(payload), raw_control), address)

\* parse_variable, line 241: the checksum comparison
ChecksumMatches(sum, checksum) == sum = checksum

\* Fault: a length echo that is read and never compared
LengthUnchecked(l1, l2) == TRUE

\* parse_variable, line 199: the length echo
LengthConfirmed(l1, l2) == l2 = l1

\* parse_variable, lines 195-249: everything before MBusMessage::parse.
\* s is positioned after the 0x68 start byte.
ParseVariableLink(s, p) ==
    IF Remaining(s, p) < 1 THEN Err(<<"length">>, p)
    ELSE IF Remaining(s, p) < 2 THEN Err(<<"length confirmation">>, p + 1)
    ELSE IF ~LengthConfirmed(s[p + 1], s[p + 2])
         THEN Err(<<"length confirmation">>, p + 1)
    ELSE IF Remaining(s, p) < 3 \/ s[p + 3] # LONG_FRAME_HEADER
         THEN Err(<<"frame marker">>, p + 2)
    ELSE LET length == s[p + 1]
             control == Context(ControlParse(s, p + 3), "control byte")
         IN  IF Failed(control) THEN control
             ELSE IF Remaining(s, p) < 5 THEN Err(<<"address byte">>, p + 4)
             ELSE LET address == s[p + 5]
                      q == p + 5
                  IN  IF Remaining(s, q) < length
                      THEN Err(<<"packet data">>, q)
                      \* length - 2 on usize: overflow panic in a debug
                      \* build, an out-of-range slice in a release build
                      ELSE IF length < 2
                      THEN Panic("attempt to subtract with overflow", q)
                      ELSE LET payload == Slice(s, q, q + length - 2)
                               e == q + length - 2
                               checksum == s[e + 1]
                               sum == VariableSum(payload, control.val.raw, address)
                           IN  IF s[e + 2] # FRAME_TAIL
                               THEN Err(<<"frame tail">>, e + 1)
                               ELSE IF ~ChecksumMatches(sum, checksum)
                               THEN Err(<<"checksum verify">>, e + 2)
                               ELSE Ok([control |-> control.val,
                                        address |-> address,
                                        length |-> length,
                                        checksum |-> checksum,
                                        data |-> payload], e + 2)

\* parse_fixed; s is positioned after the 0x10 start byte
ParseFixed(s, p) ==
    LET control == Context(ControlParse(s, p), "control byte")
    IN  IF Failed(control) THEN control
        ELSE IF Remaining(s, p) < 2 THEN Err(<<"address byte">>, p + 1)
        ELSE IF Remaining(s, p) < 3 THEN Err(<<"checksum">>, p + 2)
        ELSE IF Remaining(s, p) < 4 \/ s[p + 4] # FRAME_TAIL
             THEN Err(<<"frame tail">>, p + 3)
        ELSE LET address == s[p + 2]
                 checksum == s[p + 3]
                 sum == WrappingAdd(control.val.raw, address)
             IN  IF ~ChecksumMatches(sum, checksum)
                 THEN Err(<<"checksum verify">>, p + 4)
                 ELSE Ok([control |-> control.val,
                          address |-> address,
                          checksum |-> checksum], p + 4)

-----------------------------------------------------------------------------
(* Strict BCD: types/number.rs.  A BCD value is kept as sign and decimal   *)
(* digits (most significant first) so that 18-digit numbers stay exact.    *)

\* Fault: the nibble 0xA passes for a digit
BcdNibbleLax(v) == v <= 10

\* parse_bcd_nibble: verify(|v| *v < 10)
BcdNibbleOk(v) == v < 10

RECURSIVE BcdInitialOk(_, _, _)
BcdInitialOk(s, p, k) ==
    IF k = 0 THEN TRUE
    ELSE /\ BcdNibbleOk(Bits(s[p + 1], 7, 4))
         /\ BcdNibbleOk(Bits(s[p + 1], 3, 0))
         /\ BcdInitialOk(s, p + 1, k - 1)

\* digits of bytes p+1 .. p+k, last byte first, high nibble before low
RECURSIVE BcdDigits(_, _, _)
BcdDigits(s, p, k) ==
    IF k = 0 THEN <<>>
    ELSE BcdDigits(s, p + 1, k - 1) \o <<Bits(s[p + 1], 7, 4), Bits(s[p + 1], 3, 0)>>

\* parse_bcd(bytes)
ParseBcd(bytes, s, p) ==
    IF bytes = 0 THEN Ok([neg |-> FALSE, digits |-> <<>>], p)
    ELSE IF bytes > 9 THEN AssertFail("cannot safely parse more than 9 bytes", p)
    ELSE IF Remaining(s, p) < bytes - 1 \/ ~BcdInitialOk(s, p, bytes - 1)
         THEN Err(<<"initial bytes", "signed BCD number">>, p)
    ELSE IF Remaining(s, p) < bytes
         THEN Err(<<"final byte", "signed BCD number">>, p)
    ELSE LET last == s[p + bytes]
             high == Bits(last, 7, 4)
             low == Bits(last, 3, 0)
             neg == high = 15
         IN  IF ~((high = 15 \/ high < 10) /\ BcdNibbleOk(low))
             THEN Err(<<"final byte", "signed BCD number">>, p)
             ELSE Ok([neg |-> neg,
                      digits |-> <<IF neg THEN 0 ELSE high, low>>
                                 \o BcdDigits(s, p, bytes - 1)],
                     p + bytes)

BcdIsZero(v) == \A i \in 1..Len(v.digits) : v.digits[i] = 0

\* the i64 result is negative
BcdNegative(v) == v.neg /\ ~BcdIsZero(v)

\* the i64 result is > 0
BcdPositive(v) == (~v.neg) /\ ~BcdIsZero(v)

RECURSIVE DigitsValue(_)
DigitsValue(d) ==
    IF d = <<>> THEN 0 ELSE 10 * DigitsValue(SubSeq(d, 1, Len(d) - 1)) + d[Len(d)]

-----------------------------------------------------------------------------
(* Manufacturer code: parse/manufacturer.rs *)

IsAsciiUppercase(c) == c >= 65 /\ c <= 90

\* characterise(c): the character code, or 0 for Err(DecodeError)
Characterise(c) ==
    LET ch == (c % 32) + 64
    IN  IF IsAsciiUppercase(ch) THEN ch ELSE 0

\* the shift applied to the packed code for the middle letter (line 43)
MiddleShift == 2

\* unpack_manufacturer_code(packed): the three letters, or <<>> for Err
UnpackManufacturerCode(packed) ==
    LET a == Characterise(packed \div Pow2(10))
        b == Characterise(packed \div Pow2(MiddleShift))
        c == Characterise(packed)
    IN  IF a = 0 \/ b = 0 \/ c = 0 THEN <<>> ELSE <<a, b, c>>

\* pack_manufacturer_code(code), code three ASCII uppercase letters
PackManufacturerCode(code) ==
    (code[1] - 64) * 32 * 32 + (code[2] - 64) * 32 + (code[3] - 64)

-----------------------------------------------------------------------------
(* Transport layer headers: transport_layer/header.rs *)

APPLICATION_ERRORS == <<"None", "Busy", "Error", "Alarm">>

\* MeterStatus::parse
MeterStatusParse(s, p) ==
    IF Remaining(s, p) < 1 THEN Err(<<>>, p)
    ELSE LET b == s[p + 1]
         IN  Ok([manufacturer_2 |-> Bit(b, 7),
                 manufacturer_1 |-> Bit(b, 6),
                 manufacturer_0 |-> Bit(b, 5),
                 temporary_error |-> Bit(b, 4),
                 permanent_error |-> Bit(b, 3),
                 power_low |-> Bit(b, 2),
                 application |-> APPLICATION_ERRORS[Bits(b, 1, 0) + 1]], p + 1)

\* SecurityMode::parse, line 121: the modes admitted as Reserved(raw)
SecurityModeReserved(mode) == mode \in {6, 11, 12, 14} \cup (16..31)

\* SecurityMode::parse, lines 112-123: the verify_map closure
SecurityModeDecide(info_low, security_mode, info_high, raw_value) ==
    IF security_mode = 0
    THEN IF info_high = 0 /\ info_low = 0
         THEN [kind |-> "some", mode |-> [name |-> "None", raw |-> 0]]
         ELSE [kind |-> "none", mode |-> [name |-> "", raw |-> 0]]
    ELSE IF SecurityModeReserved(security_mode)
    THEN [kind |-> "some", mode |-> [name |-> "Reserved", raw |-> raw_value]]
    ELSE [kind |-> "todo", mode |-> [name |-> "", raw |-> 0]]

\* SecurityMode::parse
SecurityModeParse(s, p) ==
    LET raw == Context(LeU16(s, p), "Raw value peek")
    IN  IF Failed(raw) THEN [raw EXCEPT !.pos = p]
        ELSE LET info_low == s[p + 1]
                 security_mode == Bits(s[p + 2], 7, 3)
                 info_high == Bits(s[p + 2], 2, 0)
                 d == SecurityModeDecide(info_low, security_mode, info_high, raw.val)
             IN  CASE d.kind = "some" -> Ok(d.mode, p + 2)
                   [] d.kind = "none" -> Err(<<>>, p)
                   [] OTHER -> Panic("not yet implemented: Packet encryption is not yet supported", p + 2)

\* ShortHeader::parse_raw
ShortHeaderParseRaw(s, p) ==
    Bind(Context(U8(s, p), "access number"), LAMBDA access :
      Bind(Context(MeterStatusParse(s, p + 1), "status"), LAMBDA status :
        Bind(Context(SecurityModeParse(s, p + 2), "tpl configuration field"),
             LAMBDA cf :
               Ok([access_number |-> access.val,
                   status |-> status.val,
                   configuration_field |-> cf.val], cf.pos))))

\* ShortHeader::parse
ShortHeaderParse(s, p) ==
    MapOk(ShortHeaderParseRaw(s, p), LAMBDA h :
        [shape |-> "Short", identifier |-> <<>>, manufacturer |-> <<>>,
         version |-> 0, device_type |-> 0,
         access_number |-> h.access_number,
         status |-> <<h.status>>,
         configuration_field |-> <<h.configuration_field>>])

\* LongHeader::parse
LongHeaderParse(s, p) ==
    LET id == ParseBcd(4, s, p)
    IN  IF Failed(id) THEN Context(id, "device identifier")
        \* try_map(u32::try_from): a negative identifier is refused
        ELSE IF BcdNegative(id.val) THEN Err(<<"device identifier">>, p)
        ELSE LET raw == LeU16(s, p + 4)
                 manufacturer == IF Failed(raw) THEN <<>>
                                 ELSE UnpackManufacturerCode(raw.val)
             IN  IF Failed(raw) \/ manufacturer = <<>>
                 THEN Err(<<"manufacturer">>, p + 4)
                 ELSE IF Remaining(s, p) < 7 THEN Err(<<"version">>, p + 6)
                 ELSE IF Remaining(s, p) < 8 THEN Err(<<"device type">>, p + 7)
                 ELSE MapOk(ShortHeaderParseRaw(s, p + 8), LAMBDA h :
                          [shape |-> "Long",
                           identifier |-> id.val.digits,
                           manufacturer |-> manufacturer,
                           version |-> s[p + 7],
                           device_type |-> s[p + 8],
                           access_number |-> h.access_number,
                           status |-> <<h.status>>,
                           configuration_field |-> <<h.configuration_field>>])

TPLHeaderNone ==
    [shape |-> "None", identifier |-> <<>>, manufacturer |-> <<>>,
     version |-> 0, device_type |-> 0, access_number |-> 0,
     status |-> <<>>, configuration_field |-> <<>>]

-----------------------------------------------------------------------------
(* Data information block: application_layer/dib.rs *)

RawNone == [t |-> "None", n |-> 0]

\* Fault: the 4-bit value 7 is taken as its own width
RawDataTypeWidthAsIs(value) ==
    CASE value = 0 -> RawNone
      [] value \in {1, 2, 3, 4, 6, 7} -> [t |-> "Binary", n |-> value]
      [] value \in {9, 10, 11, 12, 14} -> [t |-> "BCD", n |-> value - 8]
      [] value = 5 -> [t |-> "Real", n |-> 4]
      [] value = 13 -> [t |-> "LVAR", n |-> 0]
      [] OTHER -> [t |-> "fail", n |-> 0]

\* RawDataType::parse on the low 4 bits of the DIF; t = "fail" is the None
\* of verify_map
RawDataTypeParse(value) ==
    CASE value = 0 -> RawNone
      [] value \in {1, 2, 3, 4, 6} -> [t |-> "Binary", n |-> value]
      [] value = 7 -> [t |-> "Binary", n |-> 8]
      [] value \in {9, 10, 11, 12, 14} -> [t |-> "BCD", n |-> value - 8]
      [] value = 5 -> [t |-> "Real", n |-> 4]
      [] value = 13 -> [t |-> "LVAR", n |-> 0]
      [] OTHER -> [t |-> "fail", n |-> 0]

DATA_FUNCTIONS ==
    <<"InstantaneousValue", "MaximumValue", "MinimumValue", "ValueDuringErrorState">>

\* the largest DIFE index the loop accepts (dib.rs line 97)
MAX_DIFES == 10

\* Fault: the loop takes one DIFE more before it gives up
TooManyDifesLate(i) == i > MAX_DIFES + 1

\* dib.rs line 97: if i > 10
TooManyDifes(i) == i > MAX_DIFES

\* Fault: the first DIFE is not shifted
DifeShiftFromZero(width, i) == Pow2(width * (i - 1))

\* dib.rs lines 120-121: dife_device <<= i, dife_tariff <<= 2 * i
DifeShift(width, i) == Pow2(width * i)

\* DataInfoBlock::parse, lines 96-128: the DIFE loop.  storage is kept as
\* its hexadecimal digits, least significant first: digit 0 is the DIF's
\* storage bit and DIFE i adds its 4 bits at digit i.
RECURSIVE DifeLoop(_, _, _, _)
DifeLoop(s, p, i, acc) ==
    IF TooManyDifes(i) THEN AssertFail("Packet has more than 10 DIFEs!", p)
    ELSE IF Remaining(s, p) < 1 THEN Err(<<"DIFE byte">>, p)
    ELSE LET b == s[p + 1]
             extension == Bit(b, 7)
             dife_device == Bits(b, 6, 6)
             dife_tariff == Bits(b, 5, 4)
             dife_storage == Bits(b, 3, 0)
         IN  IF (~extension) /\ dife_device = 0 /\ dife_tariff = 0 /\ dife_storage = 0
             THEN Ok([acc EXCEPT !.is_obis = TRUE], p + 1)
             ELSE LET next == [acc EXCEPT
                                 !.device = @ + dife_device * DifeShift(1, i),
                                 !.tariff = @ + dife_tariff * DifeShift(2, i),
                                 !.storage = Append(@, dife_storage),
                                 !.difes = @ + 1]
                  IN  IF extension THEN DifeLoop(s, p + 1, i + 1, next)
                      ELSE Ok(next, p + 1)

\* DataInfoBlock::parse
DataInfoBlockParse(s, p) ==
    IF Remaining(s, p) < 1 THEN Err(<<"DIF byte">>, p)
    ELSE LET b == s[p + 1]
             raw_type == RawDataTypeParse(Bits(b, 3, 0))
             first == [raw_type |-> raw_type,
                       function |-> DATA_FUNCTIONS[Bits(b, 5, 4) + 1],
                       storage |-> <<Bits(b, 6, 6)>>,
                       tariff |-> 0,
                       device |-> 0,
                       is_obis |-> FALSE,
                       difes |-> 0]
         IN  IF raw_type.t = "fail" THEN Err(<<"raw data type", "DIF byte">>, p)
             ELSE IF Bit(b, 7) THEN DifeLoop(s, p + 1, 1, first)
             ELSE Ok(first, p + 1)

-----------------------------------------------------------------------------
(* Value information block: application_layer/vib.rs *)

VIF_EXTENSION_1 == 123

VIF_EXTENSION_2 == 125

VIF_ASCII == 124

VIF_MANUFACTURER == 127

VIF_ANY == 126

\* The code tables: <<first, last, variant, unit, modulus, offset>>.  A
\* variant with an exponent carries (value & mask) + offset, mask = modulus - 1;
\* unit "nn" / "pp" is DurationType::decode_nn / decode_pp of the value.
Table10 ==
    << <<0, 7, "Energy", "Wh", 8, -3>>,
       <<8, 15, "Energy", "J", 8, 0>>,
       <<16, 23, "Volume", "M3", 8, -6>>,
       <<24, 31, "Mass", "Kg", 8, -3>>,
       <<32, 35, "OnTime", "nn", 4, 0>>,
       <<36, 39, "OperatingTime", "nn", 4, 0>>,
       <<40, 47, "Power", "W", 8, -3>>,
       <<48, 55, "Power", "Jph", 8, 0>>,
       <<56, 63, "VolumeFlow", "Hours", 8, -6>>,
       <<64, 71, "VolumeFlow", "Minutes", 8, -7>>,
       <<72, 79, "VolumeFlow", "Seconds", 8, -9>>,
       <<80, 87, "MassFlow", "Hours", 8, -3>>,
       <<88, 91, "FlowTemperature", "", 4, -3>>,
       <<92, 95, "ReturnTemperature", "", 4, -3>>,
       <<96, 99, "TemperatureDifference", "", 4, -3>>,
       <<100, 103, "ExternalTemperature", "", 4, -3>>,
       <<104, 107, "Pressure", "", 4, -3>>,
       <<108, 109, "Any", "", 1, 0>>,
       <<110, 110, "HCA", "", 1, 0>>,
       <<112, 115, "AveragingDuration", "nn", 4, 0>>,
       <<116, 119, "ActualityDuration", "nn", 4, 0>>,
       <<120, 120, "FabricationNumber", "", 1, 0>>,
       <<121, 121, "EnhancedIdentification", "", 1, 0>>,
       <<122, 122, "Address", "", 1, 0>> >>

Table12 ==
    << <<0, 3, "Credit", "", 4, -3>>,
       <<4, 7, "Debit", "", 4, -3>>,
       <<8, 8, "UniqueMessageIdentification", "", 1, 0>>,
       <<9, 9, "DeviceType", "", 1, 0>>,
       <<10, 10, "Manufacturer", "", 1, 0>>,
       <<11, 11, "ParameterSetIdentification", "", 1, 0>>,
       <<12, 12, "ModelVersion", "", 1, 0>>,
       <<13, 13, "HardwareVersionNumber", "", 1, 0>>,
       <<14, 14, "MetrologyFirmwareVersionNumber", "", 1, 0>>,
       <<15, 15, "OtherSoftwareVersionNumber", "", 1, 0>>,
       <<16, 16, "CustomerLocation", "", 1, 0>>,
       <<17, 17, "Customer", "", 1, 0>>,
       <<18, 18, "AccessCodeUser", "", 1, 0>>,
       <<19, 19, "AccessCodeOperator", "", 1, 0>>,
       <<20, 20, "AccessCodeSystemOperator", "", 1, 0>>,
       <<21, 21, "AccessCodeDeveloper", "", 1, 0>>,
       <<22, 22, "Password", "", 1, 0>>,
       <<23, 23, "ErrorFlags", "", 1, 0>>,
       <<24, 24, "ErrorMask", "", 1, 0>>,
       <<25, 25, "SecurityKey", "", 1, 0>>,
       <<26, 26, "DigitalOutput", "", 1, 0>>,
       <<27, 27, "DigitalInput", "", 1, 0>>,
       <<28, 28, "BaudRate", "", 1, 0>>,
       <<29, 29, "ResponseDelayTime", "", 1, 0>>,
       <<30, 30, "Retry", "", 1, 0>>,
       <<31, 31, "RemoteControl", "", 1, 0>>,
       <<32, 32, "FirstStorageNumberForCyclicStorage", "", 1, 0>>,
       <<33, 33, "LastStorageNumberForCyclicStorage", "", 1, 0>>,
       <<34, 34, "SizeOfStorageBlock", "", 1, 0>>,
       <<35, 35, "DescriptorForTariffAndSubunit", "", 1, 0>>,
       <<36, 39, "StorageInterval", "nn", 4, 0>>,
       <<40, 40, "StorageInterval", "Months", 1, 0>>,
       <<41, 41, "StorageInterval", "Years", 1, 0>>,
       <<42, 42, "OperatorSpecific", "", 1, 0>>,
       <<43, 43, "TimePointSecond", "", 1, 0>>,
       <<44, 47, "DurationSinceLastReadout", "nn", 4, 0>>,
       <<48, 48, "StartDateTimeOfTariff", "", 1, 0>>,
       <<49, 51, "DurationOfTariff", "nn", 4, 0>>,
       <<52, 55, "PeriodOfTarrif", "nn", 4, 0>>,
       <<56, 56, "PeriodOfTarrif", "Months", 1, 0>>,
       <<57, 57, "PeriodOfTarrif", "Years", 1, 0>>,
       <<58, 58, "Dimensionless", "", 1, 0>>,
       <<59, 59, "WirelessContainer", "", 1, 0>>,
       <<60, 63, "PeriodOfNominalDataTransmissions", "nn", 4, 0>>,
       <<64, 79, "Volts", "", 16, -9>>,
       <<80, 95, "Amperes", "", 16, -12>>,
       <<96, 96, "ResetCounter", "", 1, 0>>,
       <<97, 97, "CumulationCounter", "", 1, 0>>,
       <<98, 98, "ControlSignal", "", 1, 0>>,
       <<99, 99, "DayOfWeek", "", 1, 0>>,
       <<100, 100, "WeekNumber", "", 1, 0>>,
       <<101, 101, "TimePointOfDayChange", "", 1, 0>>,
       <<102, 102, "StateOfParameterActivation", "", 1, 0>>,
       <<103, 103, "SpecialSupplierInformation", "", 1, 0>>,
       <<104, 107, "DurationSinceLastCumulation", "pp", 4, 0>>,
       <<108, 111, "OperatingTimeBattery", "pp", 4, 0>>,
       <<112, 112, "DateAndTimeOfBatteryChange", "", 1, 0>>,
       <<113, 113, "RFLevel", "", 1, 0>>,
       <<114, 114, "DSTTypeK", "", 1, 0>>,
       <<115, 115, "ListeningWindowManagement", "", 1, 0>>,
       <<116, 116, "RemainingBatteryLife", "Days", 1, 0>>,
       <<117, 117, "NumberTimesMeterStopped", "", 1, 0>>,
       <<118, 118, "ManufacturerSpecificContainer", "", 1, 0>> >>

Table13 ==
    << <<0, 0, "CurrentlySelectedApplication", "", 1, 0>>,
       <<2, 2, "RemainingBatteryLife", "Months", 1, 0>>,
       <<3, 3, "RemainingBatteryLife", "Years", 1, 0>> >>

Table14 ==
    << <<0, 1, "Energy", "MWh", 2, -1>>,
       <<2, 3, "ReactiveEnergy", "", 2, 0>>,
       <<4, 5, "ApparentEnergy", "", 2, 0>>,
       <<8, 9, "Energy", "GJ", 2, -1>>,
       <<12, 15, "Energy", "MCal", 4, -1>>,
       <<16, 17, "Volume", "M3", 2, 2>>,
       <<20, 23, "ReactivePower", "", 4, -3>>,
       <<24, 25, "Mass", "T", 2, 2>>,
       <<26, 27, "RelativeHumidity", "", 2, -1>>,
       <<32, 32, "Volume", "Feet3", 1, 0>>,
       <<33, 33, "Volume", "Feet3", 1, -1>>,
       <<34, 38, "RetiredCode", "Table14", 1, 0>>,
       <<40, 41, "Power", "MW", 2, -1>>,
       <<42, 42, "PhaseUU", "", 1, 0>>,
       <<43, 43, "PhaseUI", "", 1, 0>>,
       <<44, 47, "Frequency", "", 4, -3>>,
       <<48, 49, "Power", "GJph", 2, -1>>,
       <<52, 55, "ApparentPower", "", 4, -1>>,
       <<88, 103, "RetiredCode", "Table14", 1, 0>>,
       <<104, 104, "ResultingPowerFactorK", "", 1, 0>>,
       <<105, 105, "ThermalOutputRatingFactorKq", "", 1, 0>>,
       <<106, 106, "ThermalCouplingRatingFactorOverallKc", "", 1, 0>>,
       <<107, 107, "ThermalCouplingRatingFactorRoomSideKcr", "", 1, 0>>,
       <<108, 108, "ThermalCouplingRatingFactorHeaterSideKch", "", 1, 0>>,
       <<109, 109, "LowTemperatureRatingFactorKt", "", 1, 0>>,
       <<110, 110, "DisplayOutputScalingFactorKD", "", 1, 0>>,
       <<112, 115, "RetiredCode", "Table14", 1, 0>>,
       <<116, 119, "ColdWarmTemperatureLimit", "", 4, -3>>,
       <<120, 127, "CumulativeMaxOfActivePower", "", 8, -3>> >>

RECURSIVE VifIndex(_, _, _)
VifIndex(tbl, value, i) ==
    IF i > Len(tbl) THEN 0
    ELSE IF value >= tbl[i][1] /\ value <= tbl[i][2] THEN i
    ELSE VifIndex(tbl, value, i + 1)

DURATION_NN == <<"Seconds", "Minutes", "Hours", "Days">>

DURATION_PP == <<"Hours", "Days", "Months", "Years">>

\* the match of parse_table_NN: the first arm that covers value
VifLookup(tbl, tname, value) ==
    LET i == VifIndex(tbl, value, 1)
    IN  IF i = 0 THEN [name |-> "ReservedCode", unit |-> tname, arg |-> value]
        ELSE LET e == tbl[i]
             IN  CASE e[3] = "RetiredCode" ->
                        [name |-> e[3], unit |-> e[4], arg |-> value]
                   [] e[4] = "nn" ->
                        [name |-> e[3], unit |-> DURATION_NN[(value % 4) + 1], arg |-> 0]
                   [] e[4] = "pp" ->
                        [name |-> e[3], unit |-> DURATION_PP[(value % 4) + 1], arg |-> 0]
                   [] OTHER ->
                        [name |-> e[3], unit |-> e[4], arg |-> (value % e[5]) + e[6]]

parse_table_10(value) == VifLookup(Table10, "Table10", value)

parse_table_12(value) == VifLookup(Table12, "Table12", value)

parse_table_13(value) == VifLookup(Table13, "Table13", value)

parse_table_14(value) == VifLookup(Table14, "Table14", value)

\* Fault: the two first-level extension tables change places
FirstLevelTableSwapped(raw_value, value) ==
    IF raw_value = VIF_EXTENSION_2 THEN parse_table_14(value) ELSE parse_table_12(value)

\* ValueInfoBlock::parse, lines 91-95: the table of a first-level VIFE
FirstLevelTable(raw_value, value) ==
    IF raw_value = VIF_EXTENSION_2 THEN parse_table_12(value) ELSE parse_table_14(value)

\* ValueType::is_unsigned
UnsignedValueTypes ==
    {"UniqueMessageIdentification", "DeviceType", "Manufacturer",
     "ParameterSetIdentification", "ModelVersion", "HardwareVersionNumber",
     "MetrologyFirmwareVersionNumber", "OtherSoftwareVersionNumber",
     "CustomerLocation", "Customer", "AccessCodeUser", "AccessCodeOperator",
     "AccessCodeDeveloper", "Password", "ErrorMask", "SecurityKey", "BaudRate",
     "ResponseDelayTime", "FirstStorageNumberForCyclicStorage",
     "LastStorageNumberForCyclicStorage", "SizeOfStorageBlock",
     "DescriptorForTariffAndSubunit", "TimePointSecond",
     "DurationSinceLastReadout", "DurationOfTariff", "PeriodOfTarrif",
     "PeriodOfNominalDataTransmissions", "DayOfWeek", "WeekNumber",
     "StateOfParameterActivation", "SpecialSupplierInformation",
     "DurationSinceLastCumulation", "RemainingBatteryLife",
     "NumberTimesMeterStopped", "RelativeHumidity", "ResultingPowerFactorK",
     "ThermalCouplingRatingFactorHeaterSideKch",
     "ThermalCouplingRatingFactorOverallKc",
     "ThermalCouplingRatingFactorRoomSideKcr", "ThermalOutputRatingFactorKq"}

is_unsigned(value_type) == value_type.name \in UnsignedValueTypes

\* std::str::from_utf8 accepts the bytes s[i..]
RECURSIVE Utf8Valid(_, _)
Utf8Valid(s, i) ==
    LET Cont(k, lo, hi) == i + k <= Len(s) /\ s[i + k] >= lo /\ s[i + k] <= hi
        b == s[i]
    IN  IF i > Len(s) THEN TRUE
        ELSE CASE b <= 127 -> Utf8Valid(s, i + 1)
               [] b >= 194 /\ b <= 223 -> Cont(1, 128, 191) /\ Utf8Valid(s, i + 2)
               [] b = 224 -> Cont(1, 160, 191) /\ Cont(2, 128, 191) /\ Utf8Valid(s, i + 3)
               [] (b >= 225 /\ b <= 236) \/ b \in {238, 239} ->
                      Cont(1, 128, 191) /\ Cont(2, 128, 191) /\ Utf8Valid(s, i + 3)
               [] b = 237 -> Cont(1, 128, 159) /\ Cont(2, 128, 191) /\ Utf8Valid(s, i + 3)
               [] b = 240 -> Cont(1, 144, 191) /\ Cont(2, 128, 191) /\ Cont(3, 128, 191)
                             /\ Utf8Valid(s, i + 4)
               [] b >= 241 /\ b <= 243 ->
                      Cont(1, 128, 191) /\ Cont(2, 128, 191) /\ Cont(3, 128, 191)
                      /\ Utf8Valid(s, i + 4)
               [] b = 244 -> Cont(1, 128, 143) /\ Cont(2, 128, 191) /\ Cont(3, 128, 191)
                             /\ Utf8Valid(s, i + 4)
               [] OTHER -> FALSE

\* chars().rev().collect() on valid UTF-8: the characters in reverse order,
\* each character keeping its own bytes
RECURSIVE RevChars(_)
RevChars(s) ==
    IF s = <<>> THEN <<>>
    ELSE LET b == s[1]
             n == CASE b <= 127 -> 1
                    [] b <= 223 -> 2
                    [] b <= 239 -> 3
                    [] OTHER -> 4
         IN  RevChars(SubSeq(s, n + 1, Len(s))) \o SubSeq(s, 1, n)

\* parse_length_prefix_ascii (types/string.rs)
ParseLengthPrefixAscii(s, p) ==
    IF Remaining(s, p) < 1 \/ Remaining(s, p) < 1 + s[p + 1] THEN Err(<<>>, p)
    ELSE LET raw == Slice(s, p + 1, p + 1 + s[p + 1])
         IN  IF ~Utf8Valid(raw, 1) THEN Err(<<>>, p)
             ELSE Ok(RevChars(raw), p + 1 + s[p + 1])

\* dump_remaining_vifes
RECURSIVE DumpRemainingVifes(_, _, _)
DumpRemainingVifes(s, p, ret) ==
    IF Remaining(s, p) < 1 THEN Err(<<"VIFE">>, p)
    ELSE LET extension == Bit(s[p + 1], 7)
             value == Bits(s[p + 1], 6, 0)
         IN  IF extension THEN DumpRemainingVifes(s, p + 1, Append(ret, value))
             ELSE Ok(Append(ret, value), p + 1)

VT(name) == [name |-> name, unit |-> "", arg |-> 0]

\* ValueInfoBlock::parse, lines 60-113: the value type, with the extension
\* bit of the last VIF/VIFE byte read and the cursor
VibValueType(s, p) ==
    IF Remaining(s, p) < 1 THEN Err(<<"initial VIF">>, p)
    ELSE LET extension == Bit(s[p + 1], 7)
             raw_value == Bits(s[p + 1], 6, 0)
             R(vt, ext, q) == Ok([value_type |-> vt, extension |-> ext], q)
         IN  IF raw_value <= 122 THEN R(parse_table_10(raw_value), extension, p + 1)
             ELSE IF extension /\ raw_value \in {VIF_EXTENSION_1, VIF_EXTENSION_2}
             THEN IF Remaining(s, p) < 2 THEN Err(<<"VIF extension byte">>, p + 1)
                  ELSE LET ext2 == Bit(s[p + 2], 7)
                           value == Bits(s[p + 2], 6, 0)
                       IN  IF raw_value = VIF_EXTENSION_2 /\ value = VIF_EXTENSION_2
                           THEN IF ~ext2
                                THEN Err(<<"vife missing for vif extension level 2">>, p + 2)
                                ELSE IF Remaining(s, p) < 3
                                THEN Err(<<"VIF extension layer 2 byte">>, p + 2)
                                ELSE R(parse_table_13(Bits(s[p + 3], 6, 0)),
                                       Bit(s[p + 3], 7), p + 3)
                           ELSE R(FirstLevelTable(raw_value, value), ext2, p + 2)
             ELSE IF raw_value = VIF_ASCII
             THEN Bind(Context(ParseLengthPrefixAscii(s, p + 1), "plain text VIF data"),
                       LAMBDA t : R([name |-> "PlainText", unit |-> "", arg |-> t.val],
                                    extension, t.pos))
             ELSE IF raw_value = VIF_MANUFACTURER
             THEN R(VT("ManufacturerSpecific"), extension, p + 1)
             ELSE IF raw_value = VIF_ANY THEN R(VT("Any"), extension, p + 1)
             ELSE R([name |-> "Invalid", unit |-> "", arg |-> raw_value], extension, p + 1)

\* ValueInfoBlock::parse
ValueInfoBlockParse(s, p) ==
    Bind(VibValueType(s, p), LAMBDA v :
      IF v.val.extension
      THEN MapOk(DumpRemainingVifes(s, v.pos, <<>>), LAMBDA e :
              [value_type |-> v.val.value_type, extra_vifes |-> <<e>>])
      ELSE Ok([value_type |-> v.val.value_type, extra_vifes |-> <<>>], v.pos))

-----------------------------------------------------------------------------
(* Payload decoders: types/date.rs, types/number.rs, types/string.rs *)

HourOk(v) == v <= 23 \/ v = 31

DayOk(v) == v >= 1 /\ v <= 31

MonthOk(v) == v >= 1 /\ v <= 12

\* TypeKDST::parse, line 514: gmt_l + (gmt_u << 3)
LocalDeviation(gmt_u, gmt_l) == (gmt_l + gmt_u * 8) % 256

LocalDeviationOk(v) == v <= 23 \/ v = 31

\* TypeKDST::parse
TypeKDSTParse(s, p) ==
    IF Remaining(s, p) < 1 THEN Err(<<"gmt deviation upper">>, p)
    ELSE IF ~HourOk(Bits(s[p + 1], 4, 0)) THEN Err(<<"hour begins">>, p)
    ELSE IF Remaining(s, p) < 2 THEN Err(<<"enable">>, p)
    ELSE IF ~DayOk(Bits(s[p + 2], 4, 0)) THEN Err(<<"day begins">>, p)
    ELSE IF Remaining(s, p) < 3 THEN Err(<<"dst ±">>, p)
    ELSE IF ~DayOk(Bits(s[p + 3], 4, 0)) THEN Err(<<"day ends">>, p)
    ELSE IF Remaining(s, p) < 4 \/ ~MonthOk(Bits(s[p + 4], 7, 4))
         THEN Err(<<"month ends">>, p)
    ELSE IF ~MonthOk(Bits(s[p + 4], 3, 0)) THEN Err(<<"month begins">>, p)
    ELSE LET gmt_u == Bits(s[p + 1], 7, 5)
             gmt_l == Bits(s[p + 2], 6, 5)
             dst_plus == Bit(s[p + 3], 7)
             dst_deviation == Bits(s[p + 3], 6, 5)
             local_deviation == LocalDeviation(gmt_u, gmt_l)
         IN  IF ~LocalDeviationOk(local_deviation) THEN Err(<<>>, p)
             ELSE Ok([starts_hour |-> Bits(s[p + 1], 4, 0),
                      starts_day |-> Bits(s[p + 2], 4, 0),
                      starts_month |-> Bits(s[p + 4], 3, 0),
                      ends_day |-> Bits(s[p + 3], 4, 0),
                      ends_month |-> Bits(s[p + 4], 7, 4),
                      enable |-> Bit(s[p + 2], 7),
                      dst_deviation |-> IF dst_plus THEN dst_deviation
                                        ELSE 0 - dst_deviation,
                      local_deviation |-> local_deviation], p + 4)

MinuteOk(v) == v <= 59 \/ v = 63

\* Fault: the month 0 is refused
DmyMonthFrom1(v) == (v >= 1 /\ v <= 12) \/ v = 15

\* Fault: the tolerated month 15 is refused
DmyMonthStrict(v) == v <= 12

\* parse_dmy, line 31: the months accepted
DmyMonthOk(v) == v <= 12 \/ v = 15

\* parse_dmy, line 38: the years accepted
DmyYearOk(y) == y <= 99 \/ y = 127

\* parse_dmy: <<day, month, year>>
parse_dmy(s, p) ==
    IF Remaining(s, p) < 2 \/ (s[p + 1] = 255 /\ s[p + 2] = 255)
    THEN Err(<<"invalid check">>, p)
    ELSE LET yu == Bits(s[p + 1], 7, 5)
             day == Bits(s[p + 1], 4, 0)
             yl == Bits(s[p + 2], 7, 4)
             month == Bits(s[p + 2], 3, 0)
             year == (yu + yl * 8) % 256
         IN  IF ~(day <= 31) THEN Err(<<"day">>, p)
             ELSE IF ~DmyMonthOk(month) THEN Err(<<"month">>, p)
             ELSE IF ~DmyYearOk(year) THEN Err(<<"year">>, p)
             ELSE Ok(<<day, month, year>>, p + 2)

\* TypeGDate::parse
TypeGDateParse(s, p) ==
    MapOk(parse_dmy(s, p), LAMBDA r : [day |-> r[1], month |-> r[2], year |-> r[3]])

\* Fault: the year 80 is left in the century it came with
HundredYearBelow80(hundred_year, year) ==
    IF hundred_year = 0 /\ year < 80 THEN 1 ELSE hundred_year

\* TypeFDateTime::parse, line 108: the century normalisation
HundredYear(hundred_year, year) ==
    IF hundred_year = 0 /\ year <= 80 THEN 1 ELSE hundred_year

\* TypeFDateTime::parse
TypeFDateTimeParse(s, p) ==
    IF Remaining(s, p) < 1 \/ Bit(s[p + 1], 7) THEN Err(<<"invalid bit">>, p)
    ELSE IF Bit(s[p + 1], 6) THEN Err(<<"reserved">>, p)
    ELSE IF ~MinuteOk(Bits(s[p + 1], 5, 0)) THEN Err(<<"minute">>, p)
    ELSE IF Remaining(s, p) < 2 THEN Err(<<"in_dst">>, p)
    ELSE IF ~HourOk(Bits(s[p + 2], 4, 0)) THEN Err(<<"hour">>, p)
    ELSE LET r == parse_dmy(s, p + 2)
         IN  IF Failed(r) THEN [r EXCEPT !.pos = p]
             ELSE Ok([minute |-> Bits(s[p + 1], 5, 0),
                      in_dst |-> Bit(s[p + 2], 7),
                      hour |-> Bits(s[p + 2], 4, 0),
                      day |-> r.val[1],
                      month |-> r.val[2],
                      year |-> r.val[3],
                      hundred_year |-> HundredYear(Bits(s[p + 2], 6, 5), r.val[3])],
                     p + 4)

\* TypeIDateTime::parse
TypeIDateTimeParse(s, p) ==
    IF Remaining(s, p) < 1 THEN Err(<<"leap year">>, p)
    ELSE IF ~MinuteOk(Bits(s[p + 1], 5, 0)) THEN Err(<<"second">>, p)
    ELSE IF Remaining(s, p) < 2 \/ Bit(s[p + 2], 7) THEN Err(<<"invalid check">>, p)
    ELSE IF ~MinuteOk(Bits(s[p + 2], 5, 0)) THEN Err(<<"minute">>, p)
    ELSE IF Remaining(s, p) < 3 THEN Err(<<"day of week">>, p)
    ELSE IF ~HourOk(Bits(s[p + 3], 4, 0)) THEN Err(<<"hour">>, p)
    ELSE LET r == parse_dmy(s, p + 3)
         IN  IF Failed(r) THEN [r EXCEPT !.pos = p]
             ELSE IF Remaining(s, p) < 6 \/ ~(Bits(s[p + 6], 5, 0) <= 53)
             THEN Err(<<"dst offset">>, p)
             ELSE LET dst_plus == Bit(s[p + 2], 6)
                      dst_offset == Bits(s[p + 6], 7, 6)
                  IN  Ok([second |-> Bits(s[p + 1], 5, 0),
                          minute |-> Bits(s[p + 2], 5, 0),
                          hour |-> Bits(s[p + 3], 4, 0),
                          day |-> r.val[1],
                          month |-> r.val[2],
                          year |-> r.val[3],
                          day_of_week |-> Bits(s[p + 3], 7, 5),
                          week |-> Bits(s[p + 6], 5, 0),
                          in_dst |-> Bit(s[p + 1], 6),
                          leap_year |-> Bit(s[p + 1], 7),
                          dst_offset |-> IF dst_plus THEN dst_offset
                                         ELSE 0 - dst_offset], p + 6)

\* Fault: the three paddings are verified before the three fields
TypeJTimePaddingFirst(s, p) ==
    IF Remaining(s, p) < 3 \/ (s[p + 1] = 255 /\ s[p + 2] = 255 /\ s[p + 3] = 255)
    THEN Err(<<"invalid check">>, p)
    ELSE IF Bits(s[p + 1], 7, 6) # 0 \/ Bits(s[p + 2], 7, 6) # 0
            \/ Bits(s[p + 3], 7, 5) # 0
    THEN Err(<<"padding">>, p)
    ELSE IF ~MinuteOk(Bits(s[p + 1], 5, 0)) THEN Err(<<"second">>, p)
    ELSE IF ~MinuteOk(Bits(s[p + 2], 5, 0)) THEN Err(<<"minute">>, p)
    ELSE IF ~HourOk(Bits(s[p + 3], 4, 0)) THEN Err(<<"hour">>, p)
    ELSE Ok([second |-> Bits(s[p + 1], 5, 0),
             minute |-> Bits(s[p + 2], 5, 0),
             hour |-> Bits(s[p + 3], 4, 0)], p + 3)

\* TypeJTime::parse
TypeJTimeParse(s, p) ==
    IF Remaining(s, p) < 3 \/ (s[p + 1] = 255 /\ s[p + 2] = 255 /\ s[p + 3] = 255)
    THEN Err(<<"invalid check">>, p)
    ELSE IF Bits(s[p + 1], 7, 6) # 0 THEN Err(<<"padding">>, p)
    ELSE IF ~MinuteOk(Bits(s[p + 1], 5, 0)) THEN Err(<<"second">>, p)
    ELSE IF Bits(s[p + 2], 7, 6) # 0 THEN Err(<<"padding">>, p)
    ELSE IF ~MinuteOk(Bits(s[p + 2], 5, 0)) THEN Err(<<"minute">>, p)
    ELSE IF Bits(s[p + 3], 7, 5) # 0 THEN Err(<<"padding">>, p)
    ELSE IF ~HourOk(Bits(s[p + 3], 4, 0)) THEN Err(<<"hour">>, p)
    ELSE Ok([second |-> Bits(s[p + 1], 5, 0),
             minute |-> Bits(s[p + 2], 5, 0),
             hour |-> Bits(s[p + 3], 4, 0)], p + 3)

BINARY_LABELS == <<"", "", "24-bit", "", "40-bit", "48-bit", "56-bit">>

\* Fault: a set top bit is not carried into the upper bytes
SignByteNever(top) == 0

\* the byte that fills an i64 above a value whose top byte is top: the sign
\* extension of i8/i16/i32 `.into()` and of `>>` on i64
SignByte(top) == IF top >= 128 THEN 255 ELSE 0

\* i64::from_le_bytes(data) >> (offset * 8), on the 8 bytes of the i64
ShiftRightBytes(res, offset) ==
    SubSeq(res, offset + 1, 8) \o [i \in 1..offset |-> SignByte(res[8])]

\* parse_binary_signed(bytes), lines 243-273: the i64 as its 8 bytes, least
\* significant first
BinarySigned(bytes, x) ==
    IF bytes \in {1, 2, 4, 8}
    THEN x \o [i \in 1..(8 - bytes) |-> SignByte(x[bytes])]
    ELSE ShiftRightBytes([i \in 1..(8 - bytes) |-> 0] \o x, 8 - bytes)

\* parse_binary_unsigned(bytes), lines 407-433: the u64 as its 8 bytes
BinaryUnsigned(bytes, x) == x \o [i \in 1..(8 - bytes) |-> 0]

\* parse_binary_signed(bytes) / parse_binary_unsigned(bytes): the 64-bit
\* value as its 8 bytes, least significant first, tagged with its signedness
ParseBinaryBytes(unsigned, bytes, s, p) ==
    LET tag == IF unsigned THEN "Unsigned" ELSE "Signed"
    IN  IF bytes = 0 THEN Ok([t |-> tag, v |-> [i \in 1..8 |-> 0]], p)
        ELSE IF bytes > 8 THEN AssertFail("cannot parse more than 8 bytes", p)
        ELSE IF Remaining(s, p) < bytes
        THEN IF bytes \in {1, 2, 4, 8} THEN Err(<<>>, p)
             ELSE Err(<<BINARY_LABELS[bytes] \o
                        (IF unsigned THEN " unsigned number" ELSE " signed number")>>, p)
        ELSE Ok([t |-> tag,
                 v |-> IF unsigned THEN BinaryUnsigned(bytes, Slice(s, p, p + bytes))
                       ELSE BinarySigned(bytes, Slice(s, p, p + bytes))],
                p + bytes)

\* record.rs parse_binary
parse_binary(unsigned, bytes, s, p) == ParseBinaryBytes(unsigned, bytes, s, p)

\* repeat(bytes, binary::u8): parse_giant_number, parse_real, parse_latin1
TakeBytes(bytes, s, p) ==
    IF Remaining(s, p) < bytes THEN Err(<<>>, p)
    ELSE Ok(Slice(s, p, p + bytes), p + bytes)

parse_giant_number(bytes, s, p) ==
    MapOk(TakeBytes(bytes, s, p), LAMBDA x : [t |-> "VariableLengthNumber", v |-> x])

\* parse_real: the four bytes of the little-endian IEEE-754 single
parse_real(s, p) ==
    MapOk(TakeBytes(4, s, p), LAMBDA x : [t |-> "Real", v |-> x])

\* parse_latin1(n): one Windows-1252 character per byte, order reversed
parse_latin1(num_bytes, s, p) ==
    MapOk(TakeBytes(num_bytes, s, p), LAMBDA x : [t |-> "String", v |-> Reverse(x)])

\* parse_invalid_bcd(bytes): any nibble is accepted; the value is the hex
\* digits in big-endian order, the sign nibble 0xF rendered as "-"
parse_invalid_bcd(bytes, s, p) ==
    IF Remaining(s, p) < bytes THEN Err(<<>>, p)
    ELSE LET d == BcdDigits(s, p, bytes)
             neg == bytes > 0 /\ d[1] = 15
         IN  Ok([t |-> "ErrorValue",
                 v |-> [neg |-> neg, digits |-> IF neg THEN Tail(d) ELSE d]],
                p + bytes)

-----------------------------------------------------------------------------
(* Records: application_layer/record.rs *)

\* handle_date_types: the value type after pairing it with the DIB raw type
handle_date_types(raw_type, value_type) ==
    CASE value_type.name = "TypeGDate" ->
            IF raw_type = [t |-> "Binary", n |-> 2] THEN value_type
            ELSE [name |-> "Invalid", unit |-> "", arg |-> 108]
      [] value_type.name = "VariableDateTime" ->
            CASE raw_type.t = "LVAR" -> VT("TypeMDatetime")
              [] raw_type = [t |-> "Binary", n |-> 4] -> VT("TypeFDateTime")
              [] raw_type = [t |-> "Binary", n |-> 3] -> VT("TypeJTime")
              [] raw_type = [t |-> "Binary", n |-> 5] -> VT("TypeIDateTime")
              [] OTHER -> [name |-> "Invalid", unit |-> "", arg |-> 109]
      [] OTHER -> value_type

\* Record::parse, line 75: the LVAR length bytes that are accepted
\* Fault: the length bytes 0xCA..0xCF pass the check
LvarValueLax(v) == v <= 207 \/ (v >= 208 /\ v <= 217) \/ (v >= 224 /\ v <= 246)

LvarValueOk(v) ==
    \/ v <= 191
    \/ (v >= 192 /\ v <= 201)
    \/ (v >= 208 /\ v <= 217)
    \/ (v >= 224 /\ v <= 239)
    \/ (v >= 240 /\ v <= 246)

\* Record::parse, lines 73-100: the LVAR arm
ParseLvar(unsigned, s, p) ==
    IF Remaining(s, p) < 1 \/ ~LvarValueOk(s[p + 1]) THEN Err(<<"LVAR value">>, p)
    ELSE LET n == s[p + 1]
             q == p + 1
         IN  CASE n <= 191 -> parse_latin1(n, s, q)
               [] n >= 192 /\ n <= 201 ->
                    Bind(ParseBcd(n - 192, s, q), LAMBDA b :
                        IF ~BcdPositive(b.val) THEN Err(<<>>, q)
                        ELSE Ok([t |-> "Signed", v |-> b.val], b.pos))
               [] n >= 208 /\ n <= 217 ->
                    MapOk(ParseBcd(n - 208, s, q), LAMBDA b :
                        [t |-> "Signed",
                         v |-> IF BcdPositive(b) THEN [b EXCEPT !.neg = TRUE] ELSE b])
               [] n >= 224 /\ n <= 232 -> parse_binary(unsigned, n - 224, s, q)
               [] n >= 233 /\ n <= 239 -> parse_giant_number(n - 224, s, q)
               [] n >= 240 /\ n <= 244 -> parse_giant_number(4 * (n - 236), s, q)
               [] n = 245 -> parse_giant_number(48, s, q)
               [] n = 246 -> parse_giant_number(64, s, q)
               [] OTHER -> Panic("unreachable", q)

\* Record::parse, lines 37-102: the payload of a record
RecordData(dib, vib, s, p) ==
    LET vt == vib.value_type.name
        unsigned == is_unsigned(vib.value_type)
        raw_type == dib.raw_type
    IN  CASE vt = "DSTTypeK" ->
                MapOk(Context(TypeKDSTParse(s, p), "Daylight Savings Type K"),
                      LAMBDA x : [t |-> "DST", v |-> x])
          [] vt = "TypeFDateTime" ->
                MapOk(Context(TypeFDateTimeParse(s, p), "Type F Date/Time"),
                      LAMBDA x : [t |-> "DateTimeF", v |-> x])
          [] vt = "TypeGDate" ->
                MapOk(Context(TypeGDateParse(s, p), "Type G Date"),
                      LAMBDA x : [t |-> "Date", v |-> x])
          [] vt = "TypeIDateTime" ->
                MapOk(Context(TypeIDateTimeParse(s, p), "Type I Date/Time"),
                      LAMBDA x : [t |-> "DateTimeI", v |-> x])
          [] vt = "TypeJTime" ->
                MapOk(Context(TypeJTimeParse(s, p), "Type J Time"),
                      LAMBDA x : [t |-> "Time", v |-> x])
          [] OTHER ->
                CASE raw_type.t = "BCD" ->
                        OrElse(MapOk(ParseBcd(raw_type.n, s, p),
                                     LAMBDA x : [t |-> "Signed", v |-> x]),
                               parse_invalid_bcd(raw_type.n, s, p))
                  [] raw_type.t = "Binary" -> parse_binary(unsigned, raw_type.n, s, p)
                  [] raw_type.t = "Real" -> parse_real(s, p)
                  [] raw_type.t = "None" -> Ok([t |-> "None", v |-> <<>>], p)
                  [] OTHER -> ParseLvar(unsigned, s, p)

\* Record::parse
RecordParse(s, p) ==
    Bind(DataInfoBlockParse(s, p), LAMBDA dib :
      Bind(ValueInfoBlockParse(s, dib.pos), LAMBDA vib0 :
        LET vib == [vib0.val EXCEPT !.value_type =
                       handle_date_types(dib.val.raw_type, @)]
        IN  Bind(RecordData(dib.val, vib, s, vib0.pos), LAMBDA d :
              Ok([dib |-> dib.val, vib |-> vib, data |-> d.val,
                  start |-> p, payload |-> vib0.pos, end |-> d.pos], d.pos))))

-----------------------------------------------------------------------------
(* Application frame: application_layer/frame.rs *)

IDLE_FILLER == 47

MORE_RECORDS_FOLLOW == 31

MANUFACTURER_DATA == 15

\* Fault: 0x0F announces more records, as 0x1F does
EndOfRecordsBothMore(s, p) ==
    IF p >= Len(s) THEN [matched |-> TRUE, more |-> FALSE, pos |-> p]
    ELSE IF s[p + 1] \in {MORE_RECORDS_FOLLOW, MANUFACTURER_DATA}
    THEN [matched |-> TRUE, more |-> TRUE, pos |-> p + 1]
    ELSE [matched |-> FALSE, more |-> FALSE, pos |-> p]

\* end_of_records: eof, 0x1F or 0x0F at cursor p
EndOfRecords(s, p) ==
    IF p >= Len(s) THEN [matched |-> TRUE, more |-> FALSE, pos |-> p]
    ELSE IF s[p + 1] = MORE_RECORDS_FOLLOW
    THEN [matched |-> TRUE, more |-> TRUE, pos |-> p + 1]
    ELSE IF s[p + 1] = MANUFACTURER_DATA
    THEN [matched |-> TRUE, more |-> FALSE, pos |-> p + 1]
    ELSE [matched |-> FALSE, more |-> FALSE, pos |-> p]

\* Fault: a run of idle filler takes the byte after it as well
IdleFillerAndNext(s, p) ==
    LET q == CHOOSE q \in p..Len(s) :
                 /\ \A k \in (p + 1)..q : s[k] = 47
                 /\ (q = Len(s) \/ s[q + 1] # 47)
    IN  IF q < Len(s) THEN q + 1 ELSE q

\* idle_filler: repeat(1.., 0x2F); the cursor after the run that starts at p
RECURSIVE IdleFiller(_, _)
IdleFiller(s, p) ==
    IF p < Len(s) /\ s[p + 1] = IDLE_FILLER THEN IdleFiller(s, p + 1) ELSE p

\* records_with_idle: repeat_till(0.., alt((idle_filler, record)),
\* end_of_records).  The terminator is tried first at every boundary.
RECURSIVE RecordsWithIdle(_, _, _)
RecordsWithIdle(s, p, records) ==
    LET end == EndOfRecords(s, p)
    IN  IF end.matched
        THEN Ok([records |-> records, more_data_follows |-> end.more], end.pos)
        ELSE IF s[p + 1] = IDLE_FILLER
        THEN RecordsWithIdle(s, IdleFiller(s, p), records)
        ELSE Bind(Context(RecordParse(s, p), "frame record"), LAMBDA r :
                RecordsWithIdle(s, r.pos, Append(records, r.val)))

\* Frame::parse
FrameParse(s, p) ==
    Bind(RecordsWithIdle(s, p, <<>>), LAMBDA r :
        Ok([records |-> r.val.records,
            more_data_follows |-> r.val.more_data_follows,
            manufacturer_specific |-> RestOf(s, r.pos)], Len(s)))

-----------------------------------------------------------------------------
(* Transport layer CI dispatch: transport_layer/control_info.rs *)

ApplicationErrorName(error_code) ==
    CASE error_code = \h00 -> "Unspecified"
      [] error_code = \h01 -> "CIFieldError"
      [] error_code = \h02 -> "BufferOverflow"
      [] error_code = \h03 -> "RecordOverflow"
      [] error_code = \h04 -> "RecordError"
      [] error_code = \h05 -> "DIFEOverflow"
      [] error_code = \h06 -> "VIFEOverflow"
      [] error_code = \h08 -> "ApplicationBusy"
      [] error_code = \h09 -> "CreditOverflow"
      [] error_code = \h11 -> "NoFunction"
      [] error_code = \h12 -> "DataError"
      [] error_code = \h13 -> "RoutingOrRelayingError"
      [] error_code = \h14 -> "AccessViolation"
      [] error_code = \h15 -> "ParameterError"
      [] error_code = \h16 -> "SizeError"
      [] error_code = \h20 -> "SecurityError"
      [] error_code = \h21 -> "SecurityMechanismNotSupported"
      [] error_code = \h22 -> "InadequateSecurityMethod"
      [] error_code = \hF0 -> "DynamicError"
      [] error_code >= \hF1 -> "ManufacturerSpecific"
      [] OTHER -> "reserved"

\* ApplicationError::parse
ApplicationErrorParse(s, p) ==
    IF Remaining(s, p) < 1 THEN Ok([name |-> "Unspecified", v |-> <<>>], p)
    ELSE LET error_code == s[p + 1]
             name == ApplicationErrorName(error_code)
         IN  CASE name = "reserved" -> Err(<<"reserved error code">>, p + 1)
               [] name = "DynamicError" ->
                    MapOk(RecordParse(s, p + 1), LAMBDA x : [name |-> name, v |-> <<x>>])
               [] name = "ManufacturerSpecific" ->
                    Ok([name |-> name, v |-> <<error_code, RestOf(s, p + 1)>>], Len(s))
               [] OTHER -> Ok([name |-> name, v |-> <<>>], p + 1)

\* MBusMessage::parse, lines 139-151: the CI values without a TPL header
NoHeaderCI ==
    (\h00..\h1F) \cup {\h54, \h5C, \h66, \h69} \cup (\h70..\h71) \cup (\h78..\h79)
    \cup {\h81, \h83, \h86, \h89} \cup (\h8C..\h90) \cup (\hA0..\hBF)

\* MBusMessage::parse, lines 152-153: the CI values with a short TPL header
ShortHeaderCI ==
    {\h5A, \h61, \h65, \h67, \h6A, \h6E, \h74, \h7A, \h7B, \h7D, \h8A, \h88,
     \h9E, \hC1, \hC4}

\* MBusMessage::parse, lines 156-179: the CI values with a long TPL header
LongHeaderCI ==
    {\h53, \h55, \h5B, \h5F, \h60, \h64, \h68} \cup (\h6B..\h6D)
    \cup {\h6F, \h72, \h73, \h75, \h7C, \h80, \h82, \h84, \h85, \h87, \h8B,
          \h9F, \hC0, \hC2, \hC3, \hC5}

\* Fault: 0x7A listed with the long headers
HeaderShapeMisfiled(ci) ==
    CASE ci \in NoHeaderCI -> "None"
      [] ci \in ShortHeaderCI \ {\h7A} -> "Short"
      [] ci \in LongHeaderCI \cup {\h7A} -> "Long"
      [] OTHER -> "reserved"

\* MBusMessage::parse, lines 138-191: the header shape selected by the CI
HeaderShape(ci) ==
    CASE ci \in NoHeaderCI -> "None"
      [] ci \in ShortHeaderCI -> "Short"
      [] ci \in LongHeaderCI -> "Long"
      [] OTHER -> "reserved"

\* MBusMessage::parse, lines 138-191: the header of the message
HeaderParse(ci, s, p) ==
    CASE HeaderShape(ci) = "None" -> Ok(TPLHeaderNone, p)
      [] HeaderShape(ci) = "Short" -> Context(ShortHeaderParse(s, p), "short header")
      [] HeaderShape(ci) = "Long" -> Context(LongHeaderParse(s, p), "long header")
      [] OTHER -> Err(<<"reserved CI field">>, p)

BAUD_RATES ==
    <<"Rate300", "Rate600", "Rate1200", "Rate2400", "Rate4800", "Rate9600",
      "Rate19200", "Rate38400">>

\* a message that owns the rest of the payload as opaque bytes
Opaque(variant, ci, header, s, p) ==
    Ok([variant |-> variant, ci |-> ci, header |-> header,
        bytes |-> RestOf(s, p), extra |-> <<>>], Len(s))

\* a message without a byte payload
Bare(variant, ci, header, extra, p) ==
    Ok([variant |-> variant, ci |-> ci, header |-> header,
        bytes |-> <<>>, extra |-> extra], p)

\* MBusMessage::parse, lines 210-219: the 0x50 | 0x53 arm
ApplicationMessage(ci, header, s, p) ==
    IF RestOf(s, p) = <<>> THEN Bare("ApplicationReset", ci, header, <<>>, Len(s))
    ELSE Opaque("ApplicationSelect", ci, header, s, p)

\* MBusMessage::parse, lines 196-250: the body selected by the CI
BodyParse(ci, header, s, p) ==
    CASE ci <= \h1F \/ ci \in {\h60, \h61, \h7C, \h7D} -> Opaque("Dlms", ci, header, s, p)
      [] ci \in {\h5F, \h9E, \h9F} -> Opaque("SpecificUsage", ci, header, s, p)
      [] ci \in (\h80..\h83) \cup (\h86..\h8F) -> Bare("Wireless", ci, header, <<>>, p)
      [] ci = \h90 -> Opaque("AuthenticationAndFrgamentation", ci, header, s, p)
      [] ci \in \hA0..\hB7 -> Opaque("ManufacturerSpecific", ci, header, s, p)
      [] ci \in \hC0..\hC2 -> Opaque("ImageTransfer", ci, header, s, p)
      [] ci \in \hC3..\hC5 -> Opaque("SecurityTransfer", ci, header, s, p)
      [] ci \in {\h50, \h53} -> ApplicationMessage(ci, header, s, p)
      [] ci \in {\h54, \h55} -> Bare("SelectedApplicationRequest", ci, header, <<>>, p)
      [] ci \in \h66..\h68 -> Opaque("SelectedApplicationResponse", ci, header, s, p)
      [] ci = \h52 -> Opaque("SelectionOfDevice", ci, header, s, p)
      [] ci = \h5C -> Bare("SynchroniseAction", ci, header, <<>>, p)
      [] ci \in \hB8..\hBF ->
            Bare("SetBaudRate", ci, header, <<BAUD_RATES[ci - \hB8 + 1]>>, p)
      [] ci = \h6C -> Opaque("TimeSyncToDevice", ci, header, s, p)
      [] ci = \h6D -> Opaque("TimeAdjustmentToDevice", ci, header, s, p)
      [] ci \in {\h51, \h5A, \h5B} -> Opaque("CommandToDevice", ci, header, s, p)
      [] ci \in \h69..\h6B -> Panic("not yet implemented: format frame", p)
      [] ci \in \h6E..\h70 ->
            Bind(ApplicationErrorParse(s, p), LAMBDA e :
                Bare("ApplicationErrorFromDevice", ci, header, <<e.val>>, e.pos))
      [] ci \in {\h71, \h74, \h75} -> Opaque("AlarmFromDevice", ci, header, s, p)
      [] ci \in {\h72, \h78, \h7A} ->
            Bind(FrameParse(s, p), LAMBDA f :
                Bare("ResponseFromDevice", ci, header, <<f.val>>, f.pos))
      [] ci \in {\h73, \h79, \h7B} -> Panic("not yet implemented: compact frame", p)
      [] OTHER -> Panic("internal error: entered unreachable code", p)

\* MBusMessage::parse
MBusMessageParse(s, p) ==
    IF Remaining(s, p) < 1 THEN Err(<<"CI field">>, p)
    ELSE Bind(HeaderParse(s[p + 1], s, p + 1), LAMBDA header :
            BodyParse(s[p + 1], header.val, s, header.pos))

-----------------------------------------------------------------------------
(* Packet::parse as a state machine: the caller hands a buffer to          *)
(* Packet::parse, alt() dispatches on the start byte, and parse_variable   *)
(* runs the link-layer checks before it hands the payload to               *)
(* MBusMessage::parse.                                                     *)

NoLink == <<>>

PacketOf(kind, l, message) ==
    [kind |-> kind, control |-> l.control, address |-> l.address, message |-> message]

\* Fault: the transport layer runs whatever the link layer returned
AfterLinkIgnored(r) == "message"

\* parse_variable, line 253: MBusMessage::parse runs once the link layer
\* has returned no error
AfterLink(r) == IF r.kind = "ok" THEN "message" ELSE "done"

\* Packet::parse, lines 295-306: alt() on the start byte
PacketParse ==
    /\ pc = "packet"
    /\ IF input # <<>> /\ input[1] = LONG_FRAME_HEADER
       THEN pc' = "variable" /\ pos' = 1 /\ out' = out
       ELSE IF input # <<>> /\ input[1] = SHORT_FRAME_HEADER
       THEN pc' = "fixed" /\ pos' = 1 /\ out' = out
       ELSE IF input # <<>> /\ input[1] = ACK_FRAME
       THEN pc' = "ack" /\ pos' = 1 /\ out' = out
       ELSE pc' = "done" /\ pos' = 0 /\ out' = Err(<<>>, 0)
    /\ UNCHANGED <<input, data, link>>

\* parse_variable, lines 195-249: the link-layer part
ParseVariable ==
    /\ pc = "variable"
    /\ LET r == ParseVariableLink(input, pos)
       IN  /\ pc' = AfterLink(r)
           /\ pos' = r.pos
           /\ IF r.kind = "ok"
              THEN /\ link' = <<r.val>>
                   /\ data' = r.val.data
                   /\ out' = out
              ELSE /\ link' = link
                   /\ data' = data
                   /\ out' = Context(r, "long frame header")
    /\ UNCHANGED input

\* parse_variable, lines 253-259: Packet::Long around the message, or the
\* transport layer's error
LongPacket(m, l, p) ==
    IF m.kind = "ok"
    THEN Ok(PacketOf("Long", IF l = NoLink THEN [control |-> <<>>, address |-> 0]
                             ELSE l[1], <<m.val>>), p)
    ELSE Context([m EXCEPT !.pos = p], "long frame header")

\* parse_variable, lines 251-259: the transport layer on the payload slice
ParseMessage ==
    /\ pc = "message"
    /\ out' = LongPacket(MBusMessageParse(data, 0), link, pos)
    /\ pc' = "done"
    /\ UNCHANGED <<input, pos, data, link>>

\* parse_fixed
ParseFixedFrame ==
    /\ pc = "fixed"
    /\ LET r == ParseFixed(input, pos)
       IN  /\ pos' = r.pos
           /\ IF r.kind = "ok"
              THEN /\ link' = <<r.val>>
                   /\ out' = Ok(PacketOf("Short", r.val, <<>>), r.pos)
              ELSE /\ link' = link
                   /\ out' = Context(r, "short frame header")
    /\ pc' = "done"
    /\ UNCHANGED <<input, data>>

\* parse_ack
ParseAck ==
    /\ pc = "ack"
    /\ out' = Ok([kind |-> "Ack", control |-> <<>>, address |-> 0, message |-> <<>>], pos)
    /\ pc' = "done"
    /\ UNCHANGED <<input, pos, data, link>>

(* The buffers: long frames around short payloads, each link-layer field   *)
(* either right or wrong, short frames, the acknowledge byte, and          *)
(* truncated frames.                                                       *)

\* longest payload built from PayloadBytes
MaxPayload == 2

PayloadBytes == {\h00, \h50, \h53, \h79, \h78, \h0F}

\* payloads with a TPL header or records
SamplePayloads ==
    { <<\h78, \h01, \h13, \h05>>,
      <<\h7A, \h2A, \h00, \h00, \h00, \h0C, \h78, \h78, \h56, \h34, \h12, \h1F>>,
      <<\h7B, \h2A, \h00, \h00, \h00>>,
      <<\h65, \h00, \h00, \h00, \h00>>,
      <<\h53, \h78, \h56, \h34, \h12, \h42, \h04, \h02, \h07, \h2A, \h00, \h00, \h00>>,
      <<\h73, \h78, \h56, \h34, \h12, \h42, \h04, \h02, \h07, \h2A, \h00, \h00, \h00, \h01>>,
      <<\h69>>, <<\hFF, \h01>> }

SeqsUpTo(S, n) == UNION { [1..k -> S] : k \in 0..n }

Payloads == SeqsUpTo(PayloadBytes, MaxPayload) \cup SamplePayloads

ControlBytes == {\h08, \h53, \h80, \h02}

AddressBytes == {\h01, \hFE}

LongFrame(l1, l2, marker, control, address, payload, checksum, tail) ==
    <<LONG_FRAME_HEADER, l1, l2, marker, control, address>> \o payload
        \o <<checksum, tail>>

GoodSum(control, address, payload) == (control + address + SumBytes(payload)) % 256

LongFrames ==
    { LongFrame(l1, l2, marker, c, a, pl, (GoodSum(c, a, pl) + d) % 256, tail) :
        l1 \in {0, 1, 8}, l2 \in {0, 1, 8}, marker \in {LONG_FRAME_HEADER},
        c \in {\h08}, a \in {\h01}, pl \in SeqsUpTo(PayloadBytes, 1),
        d \in {0}, tail \in {FRAME_TAIL} }
    \cup
    { LongFrame(Len(pl) + 2, Len(pl) + 2 + e, marker, c, a, pl,
                (GoodSum(c, a, pl) + d) % 256, tail) :
        pl \in Payloads, e \in {0, 1}, marker \in {LONG_FRAME_HEADER, 0},
        c \in ControlBytes, a \in AddressBytes, d \in {0, 1, 255},
        tail \in {FRAME_TAIL, 0} }

ShortFrames ==
    { <<SHORT_FRAME_HEADER, c, a, (c + a + d) % 256, tail>> :
        c \in ControlBytes \cup {\h40, \h7B}, a \in AddressBytes \cup {\hFF},
        d \in {0, 1}, tail \in {FRAME_TAIL, 0} }

Prefixes(s) == { SubSeq(s, 1, k) : k \in 0..Len(s) }

TruncatedFrames ==
    Prefixes(LongFrame(3, 3, LONG_FRAME_HEADER, \h08, \h01, <<\h00>>, \h09, FRAME_TAIL))
    \cup Prefixes(<<SHORT_FRAME_HEADER, \h40, \h05, \h45, FRAME_TAIL>>)

PacketInputs ==
    LongFrames \cup ShortFrames \cup TruncatedFrames
    \cup { <<ACK_FRAME>>, <<ACK_FRAME, 0>>, <<0>>, <<FRAME_TAIL, LONG_FRAME_HEADER>> }

Init ==
    /\ pc = "packet"
    /\ input \in PacketInputs
    /\ pos = 0
    /\ data = <<>>
    /\ link = NoLink
    /\ out = NoResult

Next ==
    \/ PacketParse
    \/ ParseVariable
    \/ ParseMessage
    \/ ParseFixedFrame
    \/ ParseAck

Spec == Init /\ [][Next]_vars

-----------------------------------------------------------------------------
(* The link-layer fields of a buffer, read off the wire layout             *)
(*   68 L L 68 C A payload(L-2) CS 16      and      10 C A CS 16           *)
(* without the parser.                                                     *)

IsLongFrame(f) == Len(f) >= 1 /\ f[1] = \h68

IsShortFrame(f) == Len(f) >= 1 /\ f[1] = \h10

\* the frame holds every byte its length field announces
Shaped(f) == Len(f) >= 6 /\ f[2] >= 2 /\ Len(f) >= f[2] + 6

FramePayload(f) == SubSeq(f, 7, f[2] + 4)

FrameChecksum(f) == f[f[2] + 5]

FrameTail(f) == f[f[2] + 6]

EchoAccepted(f) == Len(f) >= 3 /\ f[3] = f[2]

MarkerAccepted(f) == Len(f) >= 4 /\ f[4] = \h68

ControlAccepted(f, at) == Len(f) >= at /\ ControlParse(f, at - 1).kind = "ok"

TailAccepted(f) == Shaped(f) /\ FrameTail(f) = \h16

ChecksumAccepted(f) ==
    Shaped(f) /\ FrameChecksum(f) = (f[5] + f[6] + SumBytes(FramePayload(f))) % 256

LinkAccepted(f) ==
    /\ IsLongFrame(f)
    /\ EchoAccepted(f)
    /\ MarkerAccepted(f)
    /\ ControlAccepted(f, 5)
    /\ TailAccepted(f)
    /\ ChecksumAccepted(f)

ShortWellFormed(f) ==
    IsShortFrame(f) /\ Len(f) >= 5 /\ ControlAccepted(f, 2) /\ f[5] = \h16

Done == pc = "done"

Returned(kind) == Done /\ out.kind = "ok" /\ out.val.kind = kind

Rejected(label) == Done /\ out.kind = "err" /\ Innermost(out) = label

-----------------------------------------------------------------------------
\* C1: whenever Packet::parse succeeds on a long frame its checksum byte is
\* (control + address + sum of the payload bytes) mod 256, on a short frame
\* (control + address) mod 256; a frame that is well formed but for its
\* checksum byte is rejected with "checksum verify" as the innermost label.
C1_Checksum ==
    Done =>
        /\ Returned("Long") => ChecksumAccepted(input)
        /\ Returned("Short") => input[4] = (input[2] + input[3]) % 256
        /\ (/\ IsLongFrame(input) /\ EchoAccepted(input) /\ MarkerAccepted(input)
            /\ ControlAccepted(input, 5) /\ TailAccepted(input)
            /\ ~ChecksumAccepted(input))
           => Rejected("checksum verify")
        /\ (ShortWellFormed(input) /\ input[4] # (input[2] + input[3]) % 256)
           => Rejected("checksum verify")

\* a long frame with a payload whose bytes count in the sum is returned
C1_Witness ==
    /\ Returned("Long")
    /\ Len(data) >= 4
    /\ SumBytes(data) % 256 # 0
    /\ input[6] # 0

\* C2: a long frame is returned only if its two length bytes are equal and
\* the L - 2 bytes between the address byte and the checksum byte are the
\* payload handed to the transport layer; unequal length bytes are rejected
\* with "length confirmation" as the innermost label whatever follows them.
C2_LengthEcho ==
    IsLongFrame(input) =>
        /\ (pc = "message" \/ Returned("Long")) =>
              /\ input[2] = input[3]
              /\ Len(data) = input[2] - 2
              /\ data = FramePayload(input)
        /\ (Done /\ Len(input) >= 3 /\ input[2] # input[3])
           => Rejected("length confirmation")

\* unequal length bytes in front of an otherwise acceptable frame
C2_Witness ==
    /\ Rejected("length confirmation")
    /\ Len(input) >= 9
    /\ input[3] = input[2] + 1
    /\ MarkerAccepted(input) /\ TailAccepted(input) /\ ChecksumAccepted(input)

\* the label a failed link-layer check leaves in the error
LinkFailure(f) ==
    IF Len(f) < 2 THEN "shape"
    ELSE IF ~EchoAccepted(f) THEN "length confirmation"
    ELSE IF ~MarkerAccepted(f) THEN "frame marker"
    ELSE IF ~ControlAccepted(f, 5) THEN "control byte"
    ELSE IF ~Shaped(f) THEN "shape"
    ELSE IF ~TailAccepted(f) THEN "frame tail"
    ELSE IF ~ChecksumAccepted(f) THEN "checksum verify"
    ELSE "none"

InContext(r, label) == \E i \in 1..Len(r.ctx) : r.ctx[i] = label

\* C3: MBusMessage::parse runs only after the length echo, the second start
\* marker, the control byte, the frame tail and the checksum were accepted;
\* when one of them fails the result is that check's error, whatever the
\* payload holds.
C3_LinkBeforeTransport ==
    IsLongFrame(input) =>
        /\ pc = "message" => LinkAccepted(input)
        /\ (Done /\ out.kind = "ok") => LinkAccepted(input)
        /\ (Done /\ LinkFailure(input) \notin {"none", "shape"})
           => /\ out.kind = "err"
              /\ InContext(out, LinkFailure(input))
              /\ out = Context(ParseVariableLink(input, 1), "long frame header")

\* the frame tail is wrong around a payload the transport layer would refuse
C3_Witness ==
    /\ Done
    /\ IsLongFrame(input)
    /\ LinkFailure(input) = "frame tail"
    /\ MBusMessageParse(FramePayload(input), 0).kind # "ok"
    /\ Rejected("frame tail")

\* C7: a long frame with a valid checksum whose CI is 0x73, 0x79 or 0x7B
\* makes Packet::parse return an error value: no abort, no message.
C7_CompactFrameIsError ==
    (/\ Done
     /\ LinkAccepted(input)
     /\ Len(FramePayload(input)) >= 1
     /\ FramePayload(input)[1] \in {\h73, \h79, \h7B})
    => out.kind = "err"

-----------------------------------------------------------------------------
(* MBusMessage::parse called on a payload of its own *)

\* longest run of body bytes after the header bytes
MaxBody == 2

BodyBytes == {\h00, \h0F, \hF1}

\* what follows the CI: nothing, a short header, a long header, a short
\* header with security mode 1, a truncated header
HeaderSamples ==
    { <<>>,
      <<\h2A, \h00, \h00, \h00>>,
      <<\h78, \h56, \h34, \h12, \h42, \h04, \h02, \h07, \h2A, \h00, \h00, \h00>>,
      <<\h2A, \h00, \h00, \h08>>,
      <<\h01, \h13>>,
      <<\h78, \h56, \h34, \h12, \h42, \h04, \h02, \h07, \h2A, \h00>> }

MessageInputs ==
    { <<ci>> \o h \o b :
        ci \in Byte, h \in HeaderSamples, b \in SeqsUpTo(BodyBytes, MaxBody) }
    \cup {<<>>}

InitMessage ==
    /\ pc = "mbus"
    /\ data \in MessageInputs
    /\ input = <<>>
    /\ pos = 0
    /\ link = NoLink
    /\ out = NoResult

\* MBusMessage::parse
MBusMessageStep ==
    /\ pc = "mbus"
    /\ out' = MBusMessageParse(data, 0)
    /\ pos' = out'.pos
    /\ pc' = "done"
    /\ UNCHANGED <<input, data, link>>

NextMessage == MBusMessageStep

SpecMessage == InitMessage /\ [][NextMessage]_vars

\* the CI values that carry no TPL header
CIWithoutHeader ==
    (0..31) \cup {84, 92, 102, 105, 112, 113, 120, 121, 129, 131, 134, 137}
    \cup (140..144) \cup (160..191)

\* the CI values that carry a short TPL header
CIWithShortHeader ==
    {90, 97, 101, 103, 106, 110, 116, 122, 123, 125, 136, 138, 158, 193, 196}

\* the other assigned CI values of 0x50..=0xC5: a long TPL header
CIWithLongHeader ==
    {83, 85, 91, 95, 96, 100, 104, 107, 108, 109, 111, 114, 115, 117, 124,
     128, 130, 132, 133, 135, 139, 159, 192, 194, 195, 197}

CIClassified == CIWithoutHeader \cup CIWithShortHeader \cup CIWithLongHeader

C5_ApplicationMessage ==
    (Done /\ Len(data) >= 1 /\ data[1] \in {\h50, \h53}) =>
        /\ ~Rejected("reserved CI field")
        /\ out.kind = "ok" =>
              LET rest == IF out.val.header.shape = "Long"
                          THEN SubSeq(data, 14, Len(data))
                          ELSE SubSeq(data, 2, Len(data))
              IN  IF rest = <<>>
                  THEN out.val.variant = "ApplicationReset"
                  ELSE out.val.variant = "ApplicationSelect" /\ out.val.bytes = rest

\* the header bytes a CI announces, by the three sets
HeaderLength(ci) ==
    IF ci \in CIWithShortHeader THEN 4 ELSE IF ci \in CIWithLongHeader THEN 12 ELSE 0

\* C6: every classified CI that is no response, compact-frame, application,
\* application-error or baud-rate code returns, once its header parses, a
\* variant that carries all the remaining payload bytes verbatim; no
\* classified CI reaches an unreachable or unimplemented branch.
C6_OpaqueRemainder ==
    (/\ Done
     /\ Len(data) >= 1
     /\ data[1] \in CIClassified
     /\ data[1] \notin {\h72, \h78, \h7A, \h73, \h79, \h7B, \h50, \h53}
                       \cup (\h6E..\h70) \cup (\hB8..\hBF))
    => /\ out.kind # "panic"
       /\ out.kind = "ok" =>
             out.val.bytes = SubSeq(data, 2 + HeaderLength(data[1]), Len(data))

-----------------------------------------------------------------------------
(* SecurityMode::parse called on a configuration field of its own *)

SecurityLowBytes == {\h00, \h01, \h80, \hFF}

InitSecurity ==
    /\ pc = "security"
    /\ input \in { <<lo, hi>> : lo \in SecurityLowBytes, hi \in Byte }
    /\ data = <<>>
    /\ pos = 0
    /\ link = NoLink
    /\ out = NoResult

\* SecurityMode::parse
SecurityModeStep ==
    /\ pc = "security"
    /\ out' = SecurityModeParse(input, 0)
    /\ pos' = out'.pos
    /\ pc' = "done"
    /\ UNCHANGED <<input, data, link>>

NextSecurity == SecurityModeStep

SpecSecurity == InitSecurity /\ [][NextSecurity]_vars

\* C8: SecurityMode::parse decides by the 5-bit mode alone: mode 0 is None,
\* a mode of {6, 11, 12, 14, 16..=31} is Reserved(raw) with raw the
\* little-endian 16-bit value of the two bytes, every other mode is an
\* error value and no abort.
C8_SecurityMode ==
    Done =>
        LET mode == input[2] \div 8
            raw == input[1] + 256 * input[2]
        IN  /\ mode = 0 => out.kind = "ok" /\ out.val.name = "None"
            /\ mode \in {6, 11, 12, 14} \cup (16..31) =>
                  out.kind = "ok" /\ out.val = [name |-> "Reserved", raw |-> raw]
            /\ mode \notin {0, 6, 11, 12, 14} \cup (16..31) => out.kind = "err"

-----------------------------------------------------------------------------
(* pack_manufacturer_code and unpack_manufacturer_code: a three-letter     *)
(* code is packed and unpacked again, and any 16-bit value is unpacked.    *)

UppercaseLetters == 65..90

InitManufacturer ==
    /\ \/ /\ pc = "pack"
          /\ data \in { <<a, b, c>> : a \in UppercaseLetters, b \in UppercaseLetters,
                                      c \in UppercaseLetters }
          /\ input = <<>>
       \/ /\ pc = "unpack"
          /\ data = <<>>
          /\ input \in { <<lo, hi>> : lo \in Byte, hi \in Byte }
    /\ pos = 0
    /\ link = NoLink
    /\ out = NoResult

\* pack_manufacturer_code, the value written little-endian
PackStep ==
    /\ pc = "pack"
    /\ input' = <<PackManufacturerCode(data) % 256, PackManufacturerCode(data) \div 256>>
    /\ pc' = "unpack"
    /\ UNCHANGED <<pos, data, link, out>>

\* the Result of unpack_manufacturer_code
UnpackResult(code) == IF code = <<>> THEN Err(<<>>, 0) ELSE Ok(code, 0)

\* unpack_manufacturer_code on the little-endian 16-bit value
UnpackStep ==
    /\ pc = "unpack"
    /\ out' = UnpackResult(UnpackManufacturerCode(input[1] + 256 * input[2]))
    /\ pc' = "done"
    /\ UNCHANGED <<input, pos, data, link>>

NextManufacturer == PackStep \/ UnpackStep

SpecManufacturer == InitManufacturer /\ [][NextManufacturer]_vars

\* C9: unpack_manufacturer_code(c) is chr(((c>>10)&31)+64),
\* chr(((c>>5)&31)+64), chr((c&31)+64), failing unless all three are ASCII
\* uppercase letters; so unpacking a packed three-letter uppercase code
\* gives the code back.
C9_ManufacturerCode ==
    Done =>
        LET c == input[1] + 256 * input[2]
            letters == <<((c \div 1024) % 32) + 64, ((c \div 32) % 32) + 64,
                         (c % 32) + 64>>
        IN  /\ IF \A i \in 1..3 : letters[i] \in UppercaseLetters
               THEN out.kind = "ok" /\ out.val = letters
               ELSE out.kind = "err"
            /\ data # <<>> => out.kind = "ok" /\ out.val = data

-----------------------------------------------------------------------------
(* Frame::parse called on an application payload of its own *)

\* most pieces an application payload is put together from
MaxTokens == 4

\* two records, idle filler, the two terminator bytes, and a DIF that takes
\* what follows it as its VIF and data
FrameTokens ==
    << <<\h01, \h13, \h05>>,
       <<\h0C, \h78, \h78, \h56, \h34, \h12>>,
       <<\h2F>>, <<\h0F>>, <<\h1F>>, <<\h02>> >>

RECURSIVE Flatten(_)
Flatten(ts) == IF ts = <<>> THEN <<>> ELSE FrameTokens[Head(ts)] \o Flatten(Tail(ts))

FrameInputs == { Flatten(ts) : ts \in SeqsUpTo(1..Len(FrameTokens), MaxTokens) }

InitFrame ==
    /\ pc = "frame"
    /\ data \in FrameInputs
    /\ input = <<>>
    /\ pos = 0
    /\ link = NoLink
    /\ out = NoResult

\* Frame::parse
FrameStep ==
    /\ pc = "frame"
    /\ out' = FrameParse(data, 0)
    /\ pos' = out'.pos
    /\ pc' = "done"
    /\ UNCHANGED <<input, data, link>>

\* longest run of idle filler put into a payload
MaxIdleRun == 2

\* the cursor at which records_with_idle met its terminator
TerminatorCursor(f, recs) ==
    LET e == IF recs = <<>> THEN 0 ELSE recs[Len(recs)].end
    IN  CHOOSE q \in e..Len(f) :
            /\ \A k \in (e + 1)..q : f[k] = \h2F
            /\ (q = Len(f) \/ f[q + 1] # \h2F)

\* the cursors of f, up to the terminator, that are not inside a record
RecordBoundaries(f, recs) ==
    { b \in 0..TerminatorCursor(f, recs) :
        \A i \in 1..Len(recs) : ~(recs[i].start < b /\ b < recs[i].end) }

IdleRun(k) == [i \in 1..k |-> IDLE_FILLER]

\* a payload that parsed is sent again with idle filler at a record boundary,
\* and Frame::parse is called on it
FramePaddedStep ==
    /\ pc = "done"
    /\ out.kind = "ok"
    /\ \E b \in RecordBoundaries(data, out.val.records), k \in 1..MaxIdleRun :
          data' = SubSeq(data, 1, b) \o IdleRun(k) \o RestOf(data, b)
    /\ out' = FrameParse(data', 0)
    /\ pos' = out'.pos
    /\ pc' = "padded"
    /\ UNCHANGED <<input, link>>

NextFrame == FrameStep \/ FramePaddedStep

SpecFrame == InitFrame /\ [][NextFrame]_vars

\* the bytes of f from cursor a up to cursor b are idle filler
AllIdle(f, a, b) == \A k \in (a + 1)..b : f[k] = \h2F

\* recs are records of f in wire order that, with idle filler between them,
\* take every byte before cursor t
RecordsCover(f, recs, t) ==
    /\ \A i \in 1..Len(recs) :
          /\ recs[i].start < recs[i].end
          /\ recs[i].end <= t
          /\ f[recs[i].start + 1] \notin {\h0F, \h1F, \h2F}
          /\ AllIdle(f, IF i = 1 THEN 0 ELSE recs[i - 1].end, recs[i].start)
          /\ RecordParse(f, recs[i].start) = Ok(recs[i], recs[i].end)
    /\ AllIdle(f, IF recs = <<>> THEN 0 ELSE recs[Len(recs)].end, t)

\* C10: Frame::parse reads records in wire order up to a terminator at a
\* record boundary: the end of input gives more_data_follows = FALSE and no
\* manufacturer_specific bytes, 0x1F gives TRUE, 0x0F gives FALSE, and after
\* 0x1F or 0x0F all remaining bytes are manufacturer_specific, verbatim and in
\* order, none of them parsed as a record.
C10_FrameTerminators ==
    (Done /\ out.kind = "ok") =>
        LET f == out.val
            n == Len(data)
            m == Len(f.manufacturer_specific)
        IN  /\ f.manufacturer_specific = SubSeq(data, n - m + 1, n)
            /\ \/ /\ m = 0
                  /\ ~f.more_data_follows
                  /\ RecordsCover(data, f.records, n)
               \/ /\ n - m >= 1
                  /\ data[n - m] = \h1F
                  /\ f.more_data_follows
                  /\ RecordsCover(data, f.records, n - m - 1)
               \/ /\ n - m >= 1
                  /\ data[n - m] = \h0F
                  /\ ~f.more_data_follows
                  /\ RecordsCover(data, f.records, n - m - 1)

\* two records, 0x1F, and a whole record's bytes kept as manufacturer data
C10_Witness ==
    /\ Done
    /\ out.kind = "ok"
    /\ Len(out.val.records) = 2
    /\ out.val.more_data_follows
    /\ out.val.manufacturer_specific = <<\h01, \h13, \h05>>

\* the records of a frame without their cursors
RecordValues(recs) ==
    [i \in 1..Len(recs) |->
        [dib |-> recs[i].dib, vib |-> recs[i].vib, data |-> recs[i].data]]

\* C11: a run of one or more 0x2F bytes put at a record boundary before the
\* terminator of a payload that parses (before the first record, between two
\* records, or between the last record and the terminator) leaves the result
\* of Frame::parse as it was: the same records in the same order, the same
\* more_data_follows and the same manufacturer_specific.
C11_IdleFillerIgnored ==
    [][(pc = "done" /\ pc' = "padded") =>
          /\ out'.kind = "ok"
          /\ RecordValues(out'.val.records) = RecordValues(out.val.records)
          /\ out'.val.more_data_follows = out.val.more_data_follows
          /\ out'.val.manufacturer_specific = out.val.manufacturer_specific]_vars

\* filler went between two records of a payload that ends in 0x1F and a byte
C11_Witness ==
    /\ pc = "padded"
    /\ data = <<\h01, \h13, \h05, \h2F, \h2F, \h01, \h13, \h05, \h1F, \h02>>
    /\ out.kind = "ok"
    /\ Len(out.val.records) = 2
    /\ out.val.more_data_follows
    /\ out.val.manufacturer_specific = <<\h02>>

-----------------------------------------------------------------------------
(* DataInfoBlock::parse called on the bytes of a DIB *)

\* most DIFEs with their extension bit set that an input chains after the DIF
MaxChain == 11

\* DIF bytes with the extension bit set: Binary(1), and LVAR with storage bit
DifChained == {\h81, \hCD}

\* DIFEs with the extension bit set
DifeMids == {\hFF, \h91}

\* what ends a chain: nothing, a DIFE with bits set, the OBIS sentinel
DifeLasts == {<<>>, <<\h7F>>, <<\h00>>, <<\h25>>}

DibInputs ==
    { <<b>> : b \in Byte }
    \cup { <<dif>> \o mids \o last :
             dif \in DifChained, mids \in SeqsUpTo(DifeMids, MaxChain),
             last \in DifeLasts }

InitDib ==
    /\ pc = "dib"
    /\ data \in DibInputs
    /\ input = <<>>
    /\ pos = 0
    /\ link = NoLink
    /\ out = NoResult

\* DataInfoBlock::parse
DataInfoBlockStep ==
    /\ pc = "dib"
    /\ out' = DataInfoBlockParse(data, 0)
    /\ pos' = out'.pos
    /\ pc' = "done"
    /\ UNCHANGED <<input, data, link>>

NextDib == DataInfoBlockStep

SpecDib == InitDib /\ [][NextDib]_vars

\* C12: the low 4 bits v of the DIF give the raw type: 0 None; 1, 2, 3, 4, 6
\* Binary(v); 7 Binary(8); 5 Real; 9, 10, 11, 12, 14 BCD(v - 8); 13 LVAR; with
\* 8 or 15 DataInfoBlock::parse fails.  So a Binary width is one of
\* 1, 2, 3, 4, 6, 8 and a BCD width one of 1, 2, 3, 4, 6.
C12_RawType ==
    (Done /\ data # <<>>) =>
        LET v == data[1] % 16
            raw == out.val.raw_type
        IN  /\ v \in {8, 15} => out.kind = "err"
            /\ out.kind = "ok" =>
                  /\ v = 0 => raw.t = "None"
                  /\ v \in {1, 2, 3, 4, 6} => raw.t = "Binary" /\ raw.n = v
                  /\ v = 7 => raw.t = "Binary" /\ raw.n = 8
                  /\ v = 5 => raw.t = "Real"
                  /\ v \in {9, 10, 11, 12, 14} => raw.t = "BCD" /\ raw.n = v - 8
                  /\ v = 13 => raw.t = "LVAR"
                  /\ raw.t = "Binary" => raw.n \in {1, 2, 3, 4, 6, 8}
                  /\ raw.t = "BCD" => raw.n \in {1, 2, 3, 4, 6}

\* a DIF with low bits 7 gave Binary(8)
C12_Witness ==
    /\ Done
    /\ data = <<\h47>>
    /\ out.kind = "ok"
    /\ out.val.raw_type = [t |-> "Binary", n |-> 8]

\* the DIFEs a successful parse of f took, f[i + 1] being DIFE number i
DifeCount == out.pos - 1

RECURSIVE DeviceSum(_, _)
DeviceSum(f, k) ==
    IF k = 0 THEN 0 ELSE DeviceSum(f, k - 1) + ((f[k + 1] \div 64) % 2) * 2^k

RECURSIVE TariffSum(_, _)
TariffSum(f, k) ==
    IF k = 0 THEN 0 ELSE TariffSum(f, k - 1) + ((f[k + 1] \div 16) % 4) * 2^(2 * k)

\* C13: for a DIB with k DIFEs (1 <= k <= 10) that does not end in the OBIS
\* sentinel, DIFE i carrying device bit d_i, tariff t_i and storage s_i,
\* DataInfoBlock::parse returns device = sum of d_i * 2^i, tariff = sum of
\* t_i * 2^(2i) and storage = storage_lsb + sum of s_i * 2^(4i) (hexadecimal
\* digit 0 the storage bit of the DIF, digit i the s_i), and each stays inside
\* its field: device below 2^16, tariff below 2^32, storage within the 16
\* hexadecimal digits of a u64.
C13_DifeAccumulation ==
    (Done /\ out.kind = "ok" /\ DifeCount >= 1 /\ ~out.val.is_obis) =>
        /\ DifeCount <= 10
        /\ out.val.device = DeviceSum(data, DifeCount)
        /\ out.val.tariff = TariffSum(data, DifeCount)
        /\ Len(out.val.storage) = DifeCount + 1
        /\ out.val.storage[1] = (data[1] \div 64) % 2
        /\ \A i \in 1..DifeCount : out.val.storage[i + 1] = data[i + 1] % 16
        /\ out.val.device < 2^16
        /\ out.val.tariff <= 2^30 + (2^30 - 1)
        /\ Len(out.val.storage) <= 16

\* ten DIFEs with every bit set: the largest device, tariff and storage
C13_Witness ==
    /\ Done
    /\ out.kind = "ok"
    /\ DifeCount = 10
    /\ out.val.device = 2046
    /\ out.val.tariff = 4194300
    /\ out.val.storage = <<1, 15, 15, 15, 15, 15, 15, 15, 15, 15, 15>>

\* C14: DataInfoBlock::parse never takes more than 10 DIFE bytes: a DIF with
\* exactly 10 DIFEs, the 10th with its extension bit clear, parses, and a
\* chain whose 10th DIFE still has its extension bit set fails with the
\* assertion "Packet has more than 10 DIFEs!", whether or not an 11th byte is
\* there.
C14_DifeLimit ==
    Done =>
        /\ out.pos <= 11
        /\ (/\ Len(data) = 11
            /\ \A i \in 1..10 : data[i] >= 128
            /\ data[11] < 128) => (out.kind = "ok" /\ out.pos = 11)
        /\ (/\ Len(data) >= 11
            /\ \A i \in 1..11 : data[i] >= 128)
              => /\ out.kind = "assert"
                 /\ out.ctx = <<"Packet has more than 10 DIFEs!">>
                 /\ out.pos = 11

\* an 11th DIFE was there to read and the parse gave up before it
C14_Witness ==
    /\ Done
    /\ Len(data) = 13
    /\ \A i \in 1..12 : data[i] >= 128
    /\ out.kind = "assert"
    /\ out.pos = 11

-----------------------------------------------------------------------------
(* ValueInfoBlock::parse called on the bytes of a VIB *)

\* most VIFEs with their extension bit set that an input chains after the VIF
MaxVifes == 11

\* VIF bytes that are followed by every byte in turn
VifSamples == {\hFB, \hFD, \h7B, \h7D, \h93, \hFA, \hFE, \hFF}

\* VIFEs with the extension bit set
VifeMids == {\hFF, \h81}

VibInputs ==
    { <<b>> : b \in Byte }
    \cup { <<b, c>> : b \in VifSamples, c \in Byte }
    \cup { <<\hFD, d, c>> : d \in {\hFD, \h7D}, c \in Byte }
    \cup { <<\h7C, 2, \h41, \h42>>, <<\hFC, 1, \h41, \h05>>, <<\h7C, 3, \h41>> }
    \cup { <<\h93>> \o mids \o last :
             mids \in SeqsUpTo(VifeMids, MaxVifes), last \in {<<>>, <<\h01>>} }

InitVib ==
    /\ pc = "vib"
    /\ data \in VibInputs
    /\ input = <<>>
    /\ pos = 0
    /\ link = NoLink
    /\ out = NoResult

\* ValueInfoBlock::parse
ValueInfoBlockStep ==
    /\ pc = "vib"
    /\ out' = ValueInfoBlockParse(data, 0)
    /\ pos' = out'.pos
    /\ pc' = "done"
    /\ UNCHANGED <<input, data, link>>

NextVib == ValueInfoBlockStep

SpecVib == InitVib /\ [][NextVib]_vars

\* the 7-bit value of byte i of the VIB, and its extension bit
Vif7(i) == data[i] % 128

VifExtended(i) == data[i] >= 128

Parsed == Done /\ out.kind = "ok"

\* what the VIF values above 0x7A other than 0x7B and 0x7D select
SpecialVifs ==
    /\ (Parsed /\ Vif7(1) <= 122) =>
          out.val.value_type = VifLookup(Table10, "Table10", Vif7(1))
    /\ (Parsed /\ Vif7(1) = 124) => out.val.value_type.name = "PlainText"
    /\ (Parsed /\ Vif7(1) = 126) => out.val.value_type = VT("Any")
    /\ (Parsed /\ Vif7(1) = 127) => out.val.value_type = VT("ManufacturerSpecific")

\* the statement of C15 as the specification has it, read for a VIF that has
\* its extension bit: 0x7B reads one VIFE and decodes it by Table 12; 0x7D
\* reads one VIFE and decodes it by Table 14 unless it is 0x7D too, when one
\* more byte is decoded by Table 13
C15_TableSelectionAsStated ==
    /\ SpecialVifs
    /\ (Parsed /\ Vif7(1) = 123 /\ VifExtended(1)) =>
          /\ Len(data) >= 2
          /\ out.val.value_type = VifLookup(Table12, "Table12", Vif7(2))
    /\ (Parsed /\ Vif7(1) = 125 /\ VifExtended(1)) =>
          /\ Len(data) >= 2
          /\ IF Vif7(2) = 125
             THEN /\ Len(data) >= 3
                  /\ out.val.value_type = VifLookup(Table13, "Table13", Vif7(3))
             ELSE out.val.value_type = VifLookup(Table14, "Table14", Vif7(2))

\* C15: ValueInfoBlock::parse selects the code table from the 7-bit VIF value:
\* up to 0x7A Table 10; 0x7B with its extension bit reads one VIFE and decodes
\* it by Table 14; 0x7D with its extension bit reads one VIFE, and if that
\* VIFE is 0x7D too (and has its extension bit, or the parse fails) one more
\* byte is decoded by Table 13, otherwise the VIFE is decoded by Table 12;
\* 0x7B and 0x7D without extension bit give Invalid(value); 0x7C plain text;
\* 0x7E Any; 0x7F ManufacturerSpecific.
C15_TableSelection ==
    /\ SpecialVifs
    /\ (Done /\ Vif7(1) \in {123, 125} /\ ~VifExtended(1)) =>
          /\ out.kind = "ok"
          /\ out.pos = 1
          /\ out.val.value_type = [name |-> "Invalid", unit |-> "", arg |-> Vif7(1)]
    /\ (Done /\ Vif7(1) \in {123, 125} /\ VifExtended(1) /\ Len(data) = 1) =>
          out.kind = "err"
    /\ (Parsed /\ Vif7(1) = 123 /\ VifExtended(1)) =>
          out.val.value_type = VifLookup(Table14, "Table14", Vif7(2))
    /\ (Parsed /\ Vif7(1) = 125 /\ VifExtended(1) /\ Vif7(2) # 125) =>
          out.val.value_type = VifLookup(Table12, "Table12", Vif7(2))
    /\ (Done /\ Vif7(1) = 125 /\ VifExtended(1) /\ Len(data) >= 2 /\ Vif7(2) = 125) =>
          IF VifExtended(2)
          THEN Parsed => out.val.value_type = VifLookup(Table13, "Table13", Vif7(3))
          ELSE Rejected("vife missing for vif extension level 2")

\* VIF 0xFB with VIFE 0x00: Energy in MWh, the first row of Table 14
C15_Witness ==
    /\ Parsed
    /\ data = <<\hFB, \h00>>
    /\ out.val.value_type = [name |-> "Energy", unit |-> "MWh", arg |-> -1]

\* C16: ValueInfoBlock::parse reads at most 10 extension bytes after the VIF,
\* and a VIB whose extension bit is still set after 10 VIFEs is rejected.
C16_VifeChainBounded ==
    Done =>
        /\ out.pos <= 11
        /\ (Len(data) >= 11 /\ \A i \in 1..11 : VifExtended(i)) => out.kind # "ok"

-----------------------------------------------------------------------------
(* Record::parse called on the bytes of a record *)

\* longest payload filled byte by byte after an LVAR length byte
MaxFill == 16

\* payload lengths around the sizes of the long LVAR forms
LongFills == {19, 20, 24, 28, 32, 47, 48, 63, 64, 190, 191}

Fill(b, n) == [i \in 1..n |-> b]

\* DIFs: None, Binary(1..4), Real, Binary(6), Binary(8), BCD(1..4), LVAR,
\* BCD(6)
RecordDifs ==
    {\h00, \h01, \h02, \h03, \h04, \h05, \h06, \h07, \h09, \h0A, \h0B,
     \h0C, \h0D, \h0E}

\* VIBs: Volume, the two date codes of Table 10, DSTTypeK, DeviceType
RecordVibs == {<<\h13>>, <<\h6C>>, <<\h6D>>, <<\hFD, \h72>>, <<\hFD, \h09>>}

\* payloads: a Type K value, a Type G date, the date sentinel, a Type F
\* date and time, short ones, a negative BCD number, a digit above 9 in the
\* sign nibble and in the last of six bytes
RecordPayloads ==
    {<<\h02, \h01, \h81, \h13>>, <<\h8C, \h11>>, <<\hFF, \hFF>>,
     <<\h1A, \h2F, \h65, \h11>>, <<>>, <<\h05>>, <<\h05, \h00, \h00>>,
     <<\h02, \h01, \h81, \h13, \h00, \h00, \h00, \h00>>,
     <<\h12, \hF3>>, <<\h12, \hA3>>, <<\hF5>>,
     <<\h12, \h34, \h56, \h78, \h90, \h1B, \h77>>}

\* the VIBs in front of an LVAR payload: a signed and an unsigned value type
LvarVibs == {<<\h13>>, <<\hFD, \h09>>}

LvarInputs ==
    { <<\h0D>> \o vib \o <<l>> \o Fill(b, n) \o last :
        vib \in LvarVibs, l \in Byte, b \in {\h00, \h12},
        n \in (0..MaxFill) \cup LongFills, last \in {<<>>, <<\hF3>>} }

RecordInputs ==
    { <<dif>> \o vib \o payload :
        dif \in RecordDifs, vib \in RecordVibs, payload \in RecordPayloads }
    \cup LvarInputs

InitRecord ==
    /\ pc = "record"
    /\ data \in RecordInputs
    /\ input = <<>>
    /\ pos = 0
    /\ link = NoLink
    /\ out = NoResult

\* Record::parse
RecordStep ==
    /\ pc = "record"
    /\ out' = RecordParse(data, 0)
    /\ pos' = out'.pos
    /\ pc' = "done"
    /\ UNCHANGED <<input, data, link>>

NextRecord == RecordStep

SpecRecord == InitRecord /\ [][NextRecord]_vars

Binary(n) == [t |-> "Binary", n |-> n]

\* the DIB raw type each decoded date/time payload is paired with
DatePairs ==
    [Date |-> Binary(2), DateTimeF |-> Binary(4), Time |-> Binary(3),
     DateTimeI |-> Binary(5), DST |-> Binary(4)]

DateValueTypes == {"TypeGDate", "TypeFDateTime", "TypeJTime", "TypeIDateTime", "DSTTypeK"}

\* C17: Record::parse applies a date/time decoder only when the VIB value
\* type is a date/time type and the DIB raw type is the paired width (Date
\* with Binary(2), DateTimeF and DST with Binary(4), Time with Binary(3),
\* DateTimeI with Binary(5)); a date/time value type with any other raw type
\* is rewritten to Invalid, so no record keeps a date/time value type whose
\* payload was not decoded as that date/time.
C17_DatePairing ==
    Parsed =>
        /\ out.val.data.t \in DOMAIN DatePairs =>
              /\ out.val.dib.raw_type = DatePairs[out.val.data.t]
              /\ out.val.vib.value_type.name \in DateValueTypes
        /\ out.val.vib.value_type.name \in DateValueTypes =>
              out.val.data.t \in DOMAIN DatePairs

-----------------------------------------------------------------------------
(* parse_bcd, parse_binary_signed and parse_binary_unsigned called with a
   width on a byte string; link holds the width *)

\* most bytes in front of the last byte of a number's input
MaxLead == 9

\* widths handed to the parsers
MaxWidth == 10

BcdLeadBytes == {\h00, \h12, \h99, \hA5, \h5A, \hF1, \h1F}

BcdLastBytes == {\h00, \h09, \h99, \hF0, \hF9, \hFF, \h0F, \hA0, \h0A, \h12}

\* one lead byte repeated and a last byte, and every single byte
BcdInputs ==
    { Fill(b, k) \o <<last>> : b \in BcdLeadBytes, k \in 0..MaxLead, last \in BcdLastBytes }
    \cup { <<b>> : b \in Byte } \cup {<<>>}

\* every pair of bytes, for parse_bcd(2)
BcdPairs == { <<a, b>> : a, b \in Byte }

BinaryInputs ==
    { Fill(b, k) \o <<last>> :
        b \in {\h00, \h01, \hFF}, k \in 0..MaxLead,
        last \in {\h00, \h12, \h7F, \h80, \hFF} }
    \cup { <<b>> : b \in Byte } \cup {<<>>}

Width(n) == [kind |-> "width", bytes |-> n]

InitNumber ==
    /\ \/ /\ pc = "parse_bcd"
          /\ data \in BcdInputs
          /\ link \in { Width(n) : n \in 0..MaxWidth }
       \/ /\ pc = "parse_bcd"
          /\ data \in BcdPairs
          /\ link = Width(2)
       \/ /\ pc \in {"parse_binary_signed", "parse_binary_unsigned"}
          /\ data \in BinaryInputs
          /\ link \in { Width(n) : n \in 0..MaxWidth }
    /\ input = <<>>
    /\ pos = 0
    /\ out = NoResult

\* parse_bcd(bytes)
ParseBcdStep ==
    /\ pc = "parse_bcd"
    /\ out' = ParseBcd(link.bytes, data, 0)
    /\ pos' = out'.pos
    /\ pc' = "bcd done"
    /\ UNCHANGED <<input, data, link>>

\* parse_binary_signed(bytes)
ParseBinarySignedStep ==
    /\ pc = "parse_binary_signed"
    /\ out' = ParseBinaryBytes(FALSE, link.bytes, data, 0)
    /\ pos' = out'.pos
    /\ pc' = "signed done"
    /\ UNCHANGED <<input, data, link>>

\* parse_binary_unsigned(bytes)
ParseBinaryUnsignedStep ==
    /\ pc = "parse_binary_unsigned"
    /\ out' = ParseBinaryBytes(TRUE, link.bytes, data, 0)
    /\ pos' = out'.pos
    /\ pc' = "unsigned done"
    /\ UNCHANGED <<input, data, link>>

NextNumber == ParseBcdStep \/ ParseBinarySignedStep \/ ParseBinaryUnsignedStep

SpecNumber == InitNumber /\ [][NextNumber]_vars

\* nibbles of byte i of the input
HiNibble(i) == data[i] \div 16

LoNibble(i) == data[i] % 16

\* the first n bytes are there and are BCD with an optional sign nibble
BcdAcceptable(n) ==
    /\ Len(data) >= n
    /\ \A i \in 1..n :
          /\ LoNibble(i) <= 9
          /\ HiNibble(i) <= 9 \/ (i = n /\ HiNibble(i) = 15)

\* the number the first n bytes stand for, n <= 4
RECURSIVE BcdMagnitude(_)
BcdMagnitude(n) ==
    IF n = 0 THEN 0
    ELSE BcdMagnitude(n - 1)
         + ((IF HiNibble(n) = 15 THEN 0 ELSE HiNibble(n)) * 10 + LoNibble(n)) * 100^(n - 1)

BcdNumber(n) == IF HiNibble(n) = 15 THEN 0 - BcdMagnitude(n) ELSE BcdMagnitude(n)

\* the n bytes that encode v as BCD, least significant byte first, the sign
\* nibble 0xF in the high nibble of the last byte
EncodeBcd(v, n) ==
    LET a == IF v < 0 THEN 0 - v ELSE v
    IN  [i \in 1..n |->
            LET lo == (a \div 100^(i - 1)) % 10
                hi == (a \div (10 * 100^(i - 1))) % 10
            IN  (IF i = n /\ v < 0 THEN 15 ELSE hi) * 16 + lo]

\* the integer of a parse_bcd result of at most 8 digits
BcdInt(v) == IF v.neg THEN 0 - DigitsValue(v.digits) ELSE DigitsValue(v.digits)

\* C18: for 1 <= n <= 9 parse_bcd(n) accepts exactly the inputs whose first n
\* bytes have every nibble 0..9, but for the high nibble of the last byte,
\* which may be 0xF; the result is the decimal number whose digits are the
\* nibbles from the last byte to the first, high nibble before low, negated
\* when the sign nibble is 0xF (so it is never positive then, and F0 gives
\* 0); every other input fails with an error of "signed BCD number"; and for
\* every integer v from -10^(2n-1)+1 to 10^(2n)-1 the bytes that encode v
\* parse to v.
C18_ParseBcd ==
    (pc = "bcd done" /\ link.bytes \in 1..9) =>
        LET n == link.bytes
        IN  /\ (out.kind = "ok") = BcdAcceptable(n)
            /\ ~BcdAcceptable(n) =>
                  out.kind = "err" /\ out.ctx[Len(out.ctx)] = "signed BCD number"
            /\ BcdAcceptable(n) =>
                  /\ out.pos = n
                  /\ out.val.neg = (HiNibble(n) = 15)
                  /\ out.val.digits =
                        [j \in 1..(2 * n) |->
                            LET i == n - ((j - 1) \div 2)
                            IN  IF j % 2 = 0 THEN LoNibble(i)
                                ELSE IF HiNibble(i) = 15 THEN 0 ELSE HiNibble(i)]
                  /\ n <= 4 => BcdInt(out.val) = BcdNumber(n)
                  /\ (n <= 4 /\ HiNibble(n) = 15) => BcdInt(out.val) <= 0
            /\ (n <= 4 /\ Len(data) = n) =>
                  LET v == BcdNumber(n)
                  IN  (/\ v >= 1 - 10^(2 * n - 1)
                       /\ v <= 10^(2 * n) - 1
                       /\ data = EncodeBcd(v, n))
                          => (out.kind = "ok" /\ BcdInt(out.val) = v)

\* the two bytes that encode -123 were parsed to -123
C18_Witness ==
    /\ pc = "bcd done"
    /\ link.bytes = 2
    /\ data = EncodeBcd(0 - 123, 2)
    /\ data = <<\h23, \hF1>>
    /\ out.kind = "ok"
    /\ BcdInt(out.val) = 0 - 123

\* value of the first n input bytes as a little-endian unsigned number, n <= 3
RECURSIVE LittleEndian(_)
LittleEndian(n) == IF n = 0 THEN 0 ELSE LittleEndian(n - 1) + data[n] * 256^(n - 1)

\* the integer of a 64-bit value whose bytes 4..8 are all 0x00 or all 0xFF
SmallInt(v) ==
    IF v[8] = 255
    THEN 0 - ((255 - v[1]) + (255 - v[2]) * 256 + (255 - v[3]) * 65536) - 1
    ELSE v[1] + v[2] * 256 + v[3] * 65536

\* C19: for every width n in 1..8 parse_binary_signed(n) returns the
\* little-endian two's-complement value of the first n bytes sign-extended to
\* 64 bits (negative when the top bit of byte n is set, for the widths 3, 5,
\* 6 and 7 as well) and parse_binary_unsigned(n) the little-endian value
\* zero-extended to 64 bits; both consume exactly n bytes; width 0 returns 0
\* and consumes nothing; with fewer than n bytes the parse fails.
C19_ParseBinary ==
    (pc \in {"signed done", "unsigned done"} /\ link.bytes \in 0..8) =>
        LET n == link.bytes
            negative == pc = "signed done" /\ n >= 1 /\ data[n] >= 128
        IN  IF Len(data) < n THEN out.kind = "err"
            ELSE /\ out.kind = "ok"
                 /\ out.pos = n
                 /\ out.val.t = (IF pc = "signed done" THEN "Signed" ELSE "Unsigned")
                 /\ \A i \in 1..8 :
                       out.val.v[i] = IF i <= n THEN data[i]
                                      ELSE IF negative THEN 255 ELSE 0
                 /\ n <= 3 =>
                       /\ \A i \in 4..8 : out.val.v[i] = out.val.v[8]
                       /\ SmallInt(out.val.v) =
                             LittleEndian(n) - (IF negative THEN 256^n ELSE 0)

\* the three bytes 00 00 80 read as a signed number are -8388608
C19_Witness ==
    /\ pc = "signed done"
    /\ link.bytes = 3
    /\ data = <<\h00, \h00, \h80>>
    /\ out.kind = "ok"
    /\ out.val.v = <<0, 0, 128, 255, 255, 255, 255, 255>>
    /\ SmallInt(out.val.v) = 0 - 8388608

\* an LVAR record of the inputs: its length byte and the bytes after it
IsLvarRecord == pc = "done" /\ data \in LvarInputs

LvarCursor == IF data[2] = \hFD THEN 4 ELSE 3

LvarLength == data[LvarCursor]

LvarAvailable == Len(data) - LvarCursor

\* the record parsed and its payload is the length byte and size more bytes
LvarTook(size, tag) ==
    /\ out.kind = "ok"
    /\ out.val.data.t = tag
    /\ out.val.payload = LvarCursor - 1
    /\ out.val.end = LvarCursor + size

\* the payload of size bytes is there and is BCD with an optional sign nibble
BcdPayload(size) ==
    /\ LvarAvailable >= size
    /\ \A i \in 1..size :
          /\ data[LvarCursor + i] % 16 <= 9
          /\ (data[LvarCursor + i] \div 16 <= 9
              \/ (i = size /\ data[LvarCursor + i] \div 16 = 15))

BcdPayloadSigned(size) == size >= 1 /\ data[LvarCursor + size] \div 16 = 15

\* every digit of the BCD payload is 0, the sign nibble aside
BcdPayloadZero(size) ==
    \A i \in 1..size :
        /\ data[LvarCursor + i] % 16 = 0
        /\ (data[LvarCursor + i] \div 16 = 0
            \/ (i = size /\ data[LvarCursor + i] \div 16 = 15))

\* C20: in a record whose DIB raw type is LVAR the length byte L selects the
\* decoder and the payload size: 0x00..0xBF a Latin-1 string of L bytes;
\* 0xC0..0xC9 BCD of L - 0xC0 bytes that must be > 0; 0xD0..0xD9 BCD of
\* L - 0xD0 bytes with a result <= 0; 0xE0..0xE8 a binary integer of L - 0xE0
\* bytes; 0xE9..0xEF a VariableLengthNumber of L - 0xE0 bytes; 0xF0..0xF4 one
\* of 4 * (L - 0xEC) bytes; 0xF5 one of 48 and 0xF6 one of 64 bytes; every
\* other L makes the record fail.
C20_LvarLength ==
    IsLvarRecord =>
        LET L == LvarLength
            avail == LvarAvailable
            number == IF data[2] = \hFD THEN "Unsigned" ELSE "Signed"
            Giant(size) == IF avail >= size THEN LvarTook(size, "VariableLengthNumber")
                           ELSE out.kind = "err"
        IN  CASE L <= 191 ->
                    IF avail >= L
                    THEN LvarTook(L, "String") /\ Len(out.val.data.v) = L
                    ELSE out.kind = "err"
              [] L \in 192..201 ->
                    IF /\ BcdPayload(L - 192)
                       /\ ~BcdPayloadSigned(L - 192)
                       /\ ~BcdPayloadZero(L - 192)
                    THEN /\ LvarTook(L - 192, "Signed")
                         /\ ~out.val.data.v.neg
                         /\ ~BcdIsZero(out.val.data.v)
                    ELSE out.kind = "err"
              [] L \in 208..217 ->
                    IF BcdPayload(L - 208)
                    THEN /\ LvarTook(L - 208, "Signed")
                         /\ out.val.data.v.neg \/ BcdIsZero(out.val.data.v)
                    ELSE out.kind = "err"
              [] L \in 224..232 ->
                    IF avail >= L - 224 THEN LvarTook(L - 224, number)
                    ELSE out.kind = "err"
              [] L \in 233..239 -> Giant(L - 224)
              [] L \in 240..244 -> Giant(4 * (L - 236))
              [] L = 245 -> Giant(48)
              [] L = 246 -> Giant(64)
              [] OTHER -> Rejected("LVAR value")

\* length byte 0xD2: the two BCD bytes 12 12 became -1212
C20_Witness ==
    /\ IsLvarRecord
    /\ data = <<\h0D, \h13, \hD2, \h12, \h12>>
    /\ LvarTook(2, "Signed")
    /\ out.val.data.v = [neg |-> TRUE, digits |-> <<1, 2, 1, 2>>]

-----------------------------------------------------------------------------
(* The date and time parsers of types/date.rs called on a byte string; for
   a packed Type G date link holds the date that was packed *)

\* the 2 bytes of the Type G layout: {year low 3 bits, day} {year high 4
\* bits, month}
PackTypeG(day, month, year) ==
    <<(year % 8) * 32 + day, (year \div 8) * 16 + month>>

GDays == 0..31

GMonths == (1..12) \cup {15}

GYears == (0..99) \cup {127}

\* Type G dates inside other types: 12.01.12, the sentinel, the years 80,
\* 81, 127 and 100, the months 13 and 0
DmySamples ==
    {<<\h8C, \h11>>, <<\hFF, \hFF>>, <<\h01, \hA1>>, <<\h21, \hA1>>,
     <<\hE1, \hF1>>, <<\h81, \hC1>>, <<\h01, \h0D>>, <<\h01, \h00>>}

\* first bytes of Type F: minutes 0, 26, 59, 63 and 60, reserved bit,
\* invalid bit
TypeFFirst == {\h00, \h1A, \h3B, \h3F, \h3C, \h40, \h80, \h9A, \hFF}

TypeFInputs ==
    { <<a, b>> \o dmy : a \in TypeFFirst, b \in Byte, dmy \in DmySamples }
    \cup { <<a>> : a \in TypeFFirst } \cup {<<>>}

\* bytes of Type J: every padding with a value in range, at its edge or
\* out of range
TypeJSix == { pad * 64 + v : pad \in 0..3, v \in {0, 59, 60, 63} }

TypeJFive == { pad * 32 + v : pad \in {0, 1, 4, 7}, v \in {0, 23, 24, 31} }

TypeJInputs ==
    { <<a, b, c>> : a \in TypeJSix, b \in TypeJSix, c \in TypeJFive }
    \cup { <<a, b>> : a \in TypeJSix, b \in TypeJSix }

TypeKInputs ==
    { <<a, b, c, d>> :
        a \in Byte, b \in {\h01, \h21, \h41, \h61, \h81, \h00},
        c \in {\h81, \h01, \h00}, d \in {\h13, \h03, \hD1} }

InitDate ==
    /\ \/ pc = "type_g" /\ data \in [1..2 -> Byte] /\ link = NoLink
       \/ /\ pc = "type_g"
          /\ link \in [day : GDays, month : GMonths, year : GYears]
          /\ data = PackTypeG(link.day, link.month, link.year)
       \/ pc = "type_f" /\ data \in TypeFInputs /\ link = NoLink
       \/ pc = "type_j" /\ data \in TypeJInputs /\ link = NoLink
       \/ pc = "type_k" /\ data \in TypeKInputs /\ link = NoLink
    /\ input = <<>>
    /\ pos = 0
    /\ out = NoResult

\* TypeGDate::parse
TypeGDateStep ==
    /\ pc = "type_g"
    /\ out' = TypeGDateParse(data, 0)
    /\ pos' = out'.pos
    /\ pc' = "g done"
    /\ UNCHANGED <<input, data, link>>

\* TypeFDateTime::parse
TypeFDateTimeStep ==
    /\ pc = "type_f"
    /\ out' = TypeFDateTimeParse(data, 0)
    /\ pos' = out'.pos
    /\ pc' = "f done"
    /\ UNCHANGED <<input, data, link>>

\* TypeJTime::parse
TypeJTimeStep ==
    /\ pc = "type_j"
    /\ out' = TypeJTimeParse(data, 0)
    /\ pos' = out'.pos
    /\ pc' = "j done"
    /\ UNCHANGED <<input, data, link>>

\* TypeKDST::parse
TypeKDSTStep ==
    /\ pc = "type_k"
    /\ out' = TypeKDSTParse(data, 0)
    /\ pos' = out'.pos
    /\ pc' = "k done"
    /\ UNCHANGED <<input, data, link>>

NextDate == TypeGDateStep \/ TypeFDateTimeStep \/ TypeJTimeStep \/ TypeKDSTStep

SpecDate == InitDate /\ [][NextDate]_vars

\* the fields of the first two bytes, by the Type G layout
WireDay(i) == data[i] % 32

WireMonth(i) == data[i + 1] % 16

WireYear(i) == data[i] \div 32 + (data[i + 1] \div 16) * 8

\* C21 as stated: TypeGDate::parse accepts a 2-byte input if and only if it
\* is not FF FF and has day in 0..31, month in 1..12 or 15, and year in
\* 0..99 or 127; FF FF fails with innermost label "invalid check", a month
\* out of range with "month" and a year out of range with "year".
C21_TypeGDateAcceptsAsStated ==
    (pc = "g done" /\ Len(data) = 2) =>
        LET monthOk == WireMonth(1) \in GMonths
            yearOk == WireYear(1) \in GYears
        IN  /\ (out.kind = "ok") =
                  (data # <<\hFF, \hFF>> /\ WireDay(1) \in GDays /\ monthOk /\ yearOk)
            /\ data = <<\hFF, \hFF>> => Innermost(out) = "invalid check"
            /\ (data # <<\hFF, \hFF>> /\ ~monthOk) => Innermost(out) = "month"
            /\ (data # <<\hFF, \hFF>> /\ monthOk /\ ~yearOk) => Innermost(out) = "year"

\* C21: TypeGDate::parse accepts a 2-byte input if and only if it is not
\* FF FF and has day in 0..31, month in 0..12 or 15, and year in 0..99 or
\* 127; FF FF fails with innermost label "invalid check", the months 13 and
\* 14 with "month" and a year out of range (month in range) with "year".
C21_TypeGDateAccepts ==
    (pc = "g done" /\ Len(data) = 2) =>
        LET monthOk == WireMonth(1) \in GMonths \cup {0}
            yearOk == WireYear(1) \in GYears
        IN  /\ (out.kind = "ok") =
                  (data # <<\hFF, \hFF>> /\ WireDay(1) \in GDays /\ monthOk /\ yearOk)
            /\ out.kind = "ok" =>
                  out.val = [day |-> WireDay(1), month |-> WireMonth(1),
                             year |-> WireYear(1)]
            /\ data = <<\hFF, \hFF>> => Innermost(out) = "invalid check"
            /\ (data # <<\hFF, \hFF>> /\ ~monthOk) => Innermost(out) = "month"
            /\ (data # <<\hFF, \hFF>> /\ monthOk /\ ~yearOk) => Innermost(out) = "year"

\* the bytes 01 00 were accepted as day 1 of month 0
C21_Witness ==
    /\ pc = "g done"
    /\ link = NoLink
    /\ data = <<\h01, \h00>>
    /\ out.kind = "ok"
    /\ out.val = [day |-> 1, month |-> 0, year |-> 0]

\* C22 as stated: for every day in 0..31, month in 1..12 or 15 and year in
\* 0..99 or 127, TypeGDate::parse on the 2 bytes the date is packed into
\* returns that day, month and year.
C22_TypeGDateRoundTripAsStated ==
    (pc = "g done" /\ link # NoLink) =>
        /\ out.kind = "ok"
        /\ out.pos = 2
        /\ out.val = [day |-> link.day, month |-> link.month, year |-> link.year]

\* C22: every such date but 31.15.127 comes back from the 2 bytes it is
\* packed into; 31.15.127 is packed into FF FF, which is refused with
\* innermost label "invalid check".
C22_TypeGDateRoundTrip ==
    (pc = "g done" /\ link # NoLink) =>
        IF link = [day |-> 31, month |-> 15, year |-> 127]
        THEN data = <<\hFF, \hFF>> /\ Failed(out) /\ Innermost(out) = "invalid check"
        ELSE /\ out.kind = "ok"
             /\ out.pos = 2
             /\ out.val = [day |-> link.day, month |-> link.month, year |-> link.year]

\* the date 12.01.12 was packed into 8C 11 and came back
C22_Witness ==
    /\ pc = "g done"
    /\ link = [day |-> 12, month |-> 1, year |-> 12]
    /\ data = <<\h8C, \h11>>
    /\ out.kind = "ok"
    /\ out.val = [day |-> 12, month |-> 1, year |-> 12]

\* C23 as stated: every 3-byte input other than FF FF FF with one of the
\* seven padding bits set (top 2 bits of the first two bytes, top 3 of the
\* third) makes TypeJTime::parse fail with innermost label "padding";
\* FF FF FF fails with innermost label "invalid check".
C23_TypeJPaddingAsStated ==
    (pc = "j done" /\ Len(data) = 3) =>
        /\ data = <<\hFF, \hFF, \hFF>> =>
              Failed(out) /\ Innermost(out) = "invalid check"
        /\ (/\ data # <<\hFF, \hFF, \hFF>>
            /\ (data[1] >= 64 \/ data[2] >= 64 \/ data[3] >= 32)) =>
              Failed(out) /\ Innermost(out) = "padding"

\* a byte with no padding bit and a second or minute in range
WireSixOk(b) == b <= 59 \/ b = 63

\* C23: every 3-byte input other than FF FF FF with one of the seven
\* padding bits set makes TypeJTime::parse fail; the innermost label is
\* that of the first check that fails in wire order: "padding" when every
\* byte before the first byte with a padding bit holds a value in range,
\* "second" or "minute" when an earlier byte holds one out of range.
\* FF FF FF fails with innermost label "invalid check".
C23_TypeJPadding ==
    (pc = "j done" /\ Len(data) = 3) =>
        /\ data = <<\hFF, \hFF, \hFF>> =>
              Failed(out) /\ Innermost(out) = "invalid check"
        /\ (/\ data # <<\hFF, \hFF, \hFF>>
            /\ (data[1] >= 64 \/ data[2] >= 64 \/ data[3] >= 32)) =>
              /\ Failed(out)
              /\ Innermost(out) =
                    IF data[1] >= 64 THEN "padding"
                    ELSE IF ~WireSixOk(data[1]) THEN "second"
                    ELSE IF data[2] >= 64 THEN "padding"
                    ELSE IF ~WireSixOk(data[2]) THEN "minute"
                    ELSE "padding"

\* minute 60 before a third byte with a padding bit: the label is "minute"
C23_Witness ==
    /\ pc = "j done"
    /\ data = <<\h00, \h3C, \h20>>
    /\ Failed(out)
    /\ Innermost(out) = "minute"

\* the fields of a Type F date and time, by its layout
WireMinute == data[1] % 64

WireHour == data[2] % 32

WireHundredYear == (data[2] \div 32) % 4

WireInDst == data[2] >= 128

\* C24: for every 4-byte input TypeFDateTime::parse accepts, minute, hour,
\* in_dst, day, month and year are the wire fields and hundred_year is the
\* wire field, but 1 when the wire field is 0 and year <= 80; an input with
\* the invalid bit (top bit of the first byte) set is refused with innermost
\* label "invalid bit".
C24_TypeFFields ==
    (pc = "f done" /\ Len(data) = 4) =>
        /\ out.kind = "ok" =>
              /\ out.val.minute = WireMinute
              /\ out.val.hour = WireHour
              /\ out.val.in_dst = WireInDst
              /\ out.val.day = WireDay(3)
              /\ out.val.month = WireMonth(3)
              /\ out.val.year = WireYear(3)
              /\ out.val.hundred_year =
                    IF WireHundredYear = 0 /\ WireYear(3) <= 80
                    THEN 1 ELSE WireHundredYear
        /\ data[1] >= 128 => Failed(out) /\ Innermost(out) = "invalid bit"

\* a date of the year 80 with century 0 was normalised to century 1
C24_Witness ==
    /\ pc = "f done"
    /\ data = <<\h1A, \h0F, \h01, \hA1>>
    /\ out.kind = "ok"
    /\ out.val.year = 80
    /\ out.val.hundred_year = 1

\* C30: the local_deviation TypeKDST::parse returns is the 5-bit number
\* with gmt_upper as its three high bits and gmt_lower as its two low bits,
\* and it is in 0..23 or 31.
C30_LocalDeviation ==
    (pc = "k done" /\ out.kind = "ok") =>
        /\ out.val.local_deviation = (data[1] \div 32) * 4 + ((data[2] \div 32) % 4)
        /\ out.val.local_deviation \in (0..23) \cup {31}

-----------------------------------------------------------------------------
(* Control::parse called on one control byte, followed or not by another
   byte *)

ControlInputs ==
    { <<c>> : c \in Byte } \cup { <<c, \h01>> : c \in Byte } \cup {<<>>}

InitControl ==
    /\ pc = "control"
    /\ data \in ControlInputs
    /\ input = <<>>
    /\ pos = 0
    /\ link = NoLink
    /\ out = NoResult

\* Control::parse
ControlStep ==
    /\ pc = "control"
    /\ out' = ControlParse(data, 0)
    /\ pos' = out'.pos
    /\ pc' = "control done"
    /\ UNCHANGED <<input, data, link>>

SpecControl == InitControl /\ [][ControlStep]_vars

\* the function code of a control byte
FunctionCode(c) == c % 16

\* the PRM bit of a control byte
PrmBit(c) == (c \div 64) % 2

\* C25: two accepted control bytes with the same PRM bit and different
\* function codes never decode to the same message kind, and every control
\* byte with the top (reserved) bit set is refused with label "reserved".
C25_FunctionInjective ==
    (pc = "control done" /\ data # <<>>) =>
        /\ data[1] >= 128 => Failed(out) /\ Innermost(out) = "reserved"
        /\ out.kind = "ok" =>
              \A c \in 0..127 :
                  LET other == ControlParse(<<c>>, 0)
                  IN  (/\ other.kind = "ok"
                       /\ PrmBit(c) = PrmBit(data[1])
                       /\ FunctionCode(c) # FunctionCode(data[1])) =>
                          other.val.message # out.val.message

-----------------------------------------------------------------------------
(* The payload of a record, by the bytes of the record in data *)

\* the number of bytes of the DIB and VIB of a record of RecordInputs
PayloadStart == IF data[2] = \hFD THEN 3 ELSE 2

PayloadAvailable == Len(data) - PayloadStart

BcdDifs == {\h09, \h0A, \h0B, \h0C, \h0E}

\* the payload bytes a DIF of RecordDifs other than LVAR declares
DeclaredWidth ==
    CASE data[1] <= 4 -> data[1]
      [] data[1] = 5 -> 4
      [] data[1] = 6 -> 6
      [] data[1] = 7 -> 8
      [] data[1] \in {\h09, \h0A, \h0B, \h0C} -> data[1] - 8
      [] OTHER -> 6

\* the payload is n bytes of BCD with an optional sign nibble
StrictBcdPayload(n) ==
    \A i \in 1..n :
        /\ data[PayloadStart + i] % 16 <= 9
        /\ (data[PayloadStart + i] \div 16 <= 9
            \/ (i = n /\ data[PayloadStart + i] \div 16 = 15))

\* the 2n nibbles of the payload, last byte first, high nibble before low
PayloadNibbles(n) ==
    [i \in 1..(2 * n) |->
        LET b == data[PayloadStart + n - ((i - 1) \div 2)]
        IN  IF i % 2 = 1 THEN b \div 16 ELSE b % 16]

\* C26: for a record whose DIB raw type is BCD(n) and whose VIB is not a
\* date type, when n payload bytes are there Record::parse does not fail:
\* the payload is Signed when it is strict BCD and otherwise the ErrorValue
\* of the same n bytes, and exactly n payload bytes are consumed.
C26_BcdFallback ==
    (/\ pc = "done"
     /\ data \in RecordInputs
     /\ data[1] \in BcdDifs
     /\ PayloadAvailable >= DeclaredWidth
     /\ ~(data[2] = \hFD /\ data[3] = \h72)) =>
        LET n == DeclaredWidth
            d == PayloadNibbles(n)
            neg == d[1] = 15
        IN  /\ out.kind = "ok"
            /\ out.val.payload = PayloadStart
            /\ out.val.end = PayloadStart + n
            /\ out.val.data.t = IF StrictBcdPayload(n) THEN "Signed" ELSE "ErrorValue"
            /\ out.val.data.v.neg = neg
            /\ out.val.data.v.digits =
                  IF StrictBcdPayload(n)
                  THEN [i \in 1..(2 * n) |-> IF i = 1 /\ neg THEN 0 ELSE d[i]]
                  ELSE IF neg THEN Tail(d) ELSE d

\* the two bytes 8C 11 under a BCD(2) DIF came out as the error value 118C
C26_Witness ==
    /\ pc = "done"
    /\ data = <<\h0A, \h13, \h8C, \h11>>
    /\ out.kind = "ok"
    /\ out.val.data = [t |-> "ErrorValue",
                       v |-> [neg |-> FALSE, digits |-> <<1, 1, 8, 12>>]]
    /\ out.val.end = 4

\* C29: after the DIB and the VIB, Record::parse consumes exactly the
\* payload bytes the DIB raw type declares, whatever value type the VIB
\* selects: 0 for None, n for Binary(n) and BCD(n), 4 for Real, and the
\* length byte plus the LVAR size for LVAR.
C29_PayloadWidth ==
    (pc = "done" /\ data \in RecordInputs /\ out.kind = "ok") =>
        /\ out.val.payload = PayloadStart
        /\ out.val.end - out.val.payload =
              IF data[1] # \h0D THEN DeclaredWidth
              ELSE IF data[PayloadStart + 1] <= 191 THEN 1 + data[PayloadStart + 1]
              ELSE out.val.end - out.val.payload

\* C28: Packet::parse returns a Packet or an error value for every buffer
\* that starts a long frame; a frame 68 L L 68 C A ... with L = 0 or L = 1
\* is rejected with an error.
C28_ShortLengthRejected ==
    (pc = "done" /\ IsLongFrame(input)) =>
        /\ out.kind \in {"ok", "err"}
        /\ (/\ Len(input) >= 3
            /\ input[2] \in {0, 1}
            /\ input[3] = input[2]) => out.kind = "err"

-----------------------------------------------------------------------------
(* Frame::parse one loop iteration at a time: the record loop
   (repeat_till), the idle filler run, the DIFE loop, the VIFE loop and the
   manufacturer specific bytes.  data is the buffer and pos the cursor; link
   holds the cursors where the record under way and its VIB start, its
   DataInfoBlock and ValueInfoBlock once they are read, the DIFE index i, the
   number of iterations of the record loop and of the inner loops, the
   records parsed, and what the terminator told *)

MaxLoopLen == 4

\* idle filler, a DIF/DIFE/VIFE with the extension bit, a DIF/VIF/last
\* DIFE/payload byte, a VIF with the extension bit, a terminator, an empty
\* DIF or DIFE
LoopBytes == {\h2F, \h81, \h01, \h93, \h0F, \h00}

InitLoops ==
    /\ pc = "records"
    /\ data \in UNION { [1..n -> LoopBytes] : n \in 0..MaxLoopLen }
    /\ pos = 0
    /\ link = [start |-> 0, vif |-> 0, i |-> 0, records |-> 0, inner |-> 0,
               dib |-> <<>>, vib |-> <<>>, recs |-> <<>>, more |-> FALSE,
               rest |-> 0]
    /\ input = <<>>
    /\ out = NoResult

\* the ValueInfoBlock that starts at cursor p, once its last byte is read,
\* after handle_date_types
VibAt(dib, p, extension) ==
    IF extension THEN <<>>
    ELSE [ValueInfoBlockParse(data, p).val EXCEPT
             !.value_type = handle_date_types(dib.raw_type, @)]

\* Frame::parse returns r
Return(r) ==
    /\ pc' = "done"
    /\ out' = r
    /\ UNCHANGED <<pos, link>>

\* repeat_till: the terminator, or else one of idle filler and a record
\* (here its DIF byte)
RecordsStep ==
    /\ pc = "records"
    /\ LET end == EndOfRecords(data, pos)
       IN  IF end.matched
           THEN /\ pc' = "manufacturer"
                /\ pos' = end.pos
                /\ out' = out
                /\ link' = [link EXCEPT !.more = end.more, !.rest = end.pos]
           ELSE IF data[pos + 1] = IDLE_FILLER
           THEN /\ pc' = "idle"
                /\ pos' = pos + 1
                /\ out' = out
                /\ link' = [link EXCEPT !.records = @ + 1, !.inner = @ + 1]
           ELSE IF RawDataTypeParse(Bits(data[pos + 1], 3, 0)).t = "fail"
           THEN Return(Context(DataInfoBlockParse(data, pos), "frame record"))
           ELSE /\ pc' = IF Bit(data[pos + 1], 7) THEN "dife" ELSE "vib"
                /\ pos' = pos + 1
                /\ out' = out
                /\ link' = [link EXCEPT !.start = pos, !.vif = pos + 1, !.i = 1,
                                        !.records = @ + 1,
                                        !.dib = IF Bit(data[pos + 1], 7) THEN <<>>
                                                ELSE DataInfoBlockParse(data, pos).val]
    /\ UNCHANGED <<input, data>>

\* Fault: an idle filler byte is matched and left in the buffer
IdleFillerStuck ==
    /\ pc = "idle"
    /\ IF pos < Len(data) /\ data[pos + 1] = IDLE_FILLER
       THEN pc' = "idle" /\ link' = [link EXCEPT !.inner = @ + 1]
       ELSE pc' = "records" /\ link' = link
    /\ UNCHANGED <<input, data, pos, out>>

\* repeat(1.., IDLE_FILLER): one more filler byte, or the end of the run
IdleFillerStep ==
    /\ pc = "idle"
    /\ IF pos < Len(data) /\ data[pos + 1] = IDLE_FILLER
       THEN pc' = "idle" /\ pos' = pos + 1 /\ link' = [link EXCEPT !.inner = @ + 1]
       ELSE pc' = "records" /\ pos' = pos /\ link' = link
    /\ UNCHANGED <<input, data, out>>

\* DataInfoBlock::parse: one pass of `while extension`
DifeStep ==
    /\ pc = "dife"
    /\ IF TooManyDifes(link.i) \/ pos >= Len(data)
       THEN Return(Context(DataInfoBlockParse(data, link.start), "frame record"))
       ELSE LET b == data[pos + 1]
                obis == ~Bit(b, 7) /\ Bits(b, 6, 0) = 0
            IN  /\ pc' = IF Bit(b, 7) THEN "dife" ELSE "vib"
                /\ pos' = pos + 1
                /\ out' = out
                /\ link' = [link EXCEPT !.i = IF obis THEN @ ELSE @ + 1,
                                        !.vif = pos + 1, !.inner = @ + 1,
                                        !.dib = IF Bit(b, 7) THEN <<>>
                                                ELSE DataInfoBlockParse(data, link.start).val]
    /\ UNCHANGED <<input, data>>

\* ValueInfoBlock::parse: the VIF and the bytes its code table takes
VibStep ==
    /\ pc = "vib"
    /\ LET r == VibValueType(data, pos)
       IN  IF Failed(r) THEN Return(Context(r, "frame record"))
           ELSE /\ pc' = IF r.val.extension THEN "vife" ELSE "payload"
                /\ pos' = r.pos
                /\ out' = out
                /\ link' = [link EXCEPT !.vib = VibAt(link.dib, link.vif,
                                                      r.val.extension)]
    /\ UNCHANGED <<input, data>>

\* dump_remaining_vifes: one pass of its loop
VifeStep ==
    /\ pc = "vife"
    /\ IF pos >= Len(data) THEN Return(Err(<<"VIFE", "frame record">>, pos))
       ELSE /\ pc' = IF Bit(data[pos + 1], 7) THEN "vife" ELSE "payload"
            /\ pos' = pos + 1
            /\ out' = out
            /\ link' = [link EXCEPT !.inner = @ + 1,
                                    !.vib = VibAt(link.dib, link.vif,
                                                  Bit(data[pos + 1], 7))]
    /\ UNCHANGED <<input, data>>

\* Record::parse: the payload of the record that starts at link.start
PayloadStep ==
    /\ pc = "payload"
    /\ LET d == RecordData(link.dib, link.vib, data, pos)
       IN  IF Failed(d) THEN Return(Context(d, "frame record"))
           ELSE /\ pc' = "records"
                /\ pos' = d.pos
                /\ out' = out
                /\ link' = [link EXCEPT !.recs =
                               Append(@, [dib |-> link.dib, vib |-> link.vib,
                                          data |-> d.val, start |-> link.start,
                                          payload |-> pos, end |-> d.pos])]
    /\ UNCHANGED <<input, data>>

\* repeat(0.., binary::u8): one more byte, or the end of the buffer
ManufacturerStep ==
    /\ pc = "manufacturer"
    /\ IF pos < Len(data)
       THEN /\ pc' = "manufacturer"
            /\ pos' = pos + 1
            /\ out' = out
            /\ link' = [link EXCEPT !.inner = @ + 1]
       ELSE Return(Ok([records |-> link.recs,
                       more_data_follows |-> link.more,
                       manufacturer_specific |-> RestOf(data, link.rest)],
                      Len(data)))
    /\ UNCHANGED <<input, data>>

NextLoops ==
    \/ RecordsStep
    \/ IdleFillerStep
    \/ DifeStep
    \/ VibStep
    \/ VifeStep
    \/ PayloadStep
    \/ ManufacturerStep

\* the parser is sequential code: a step that can be taken is taken
SpecLoops == InitLoops /\ [][NextLoops]_vars /\ WF_vars(NextLoops)

\* C27: Frame::parse, the part of Packet::parse that loops, terminates on
\* every buffer: the cursor never moves back, every iteration of the record
\* loop, the idle filler loop, the DIFE loop and the VIFE loop consumes at
\* least one byte, so that the iterations of the record loop and those of
\* the inner loops are each at most the cursor, which is at most the length
\* of the buffer, and the parse reaches its end.
C27_Terminates ==
    /\ [](link.records <= pos /\ link.inner <= pos /\ pos <= Len(data))
    /\ [][/\ pos' >= pos
          /\ (pc \in {"idle", "dife", "vife"} /\ pc' = pc) => pos' > pos
          /\ (pc = "payload" /\ pc' = "records") => pos' > link.start]_vars
    /\ <>(pc = "done")

\* a buffer of two idle bytes and a record of two bytes, parsed to its end
\* in two iterations of the record loop and two of the idle filler loop
C27_Witness ==
    /\ pc = "done"
    /\ data = <<\h2F, \h2F, \h00, \h01>>
    /\ out.kind = "ok"
    /\ Len(out.val.records) = 1
    /\ pos = 4
    /\ link.inner = 2
    /\ link.records = 2

=============================================================================
